---- MODULE Spec2Model ----
(***************************************************************************)
(* Verification model of jazz-lick-lab's core transforms:                  *)
(*   services/theory.py    pitch and key arithmetic                        *)
(*   services/analysis.py  coverage and ii-V-I detection                   *)
(*   routes/jobs.py        the selection window filter                     *)
(*   services/musicxml.py  measure partition with ties, harmony placement, *)
(*                         first-measure attributes, pre-clean             *)
(*   services/practice_pack.py  the multi-key driver and its files         *)
(*   routes/jobs.py        the handlers that rewrite a job's result_json   *)
(*                                                                         *)
(* Text is modelled as a sequence of one-character strings, so that        *)
(* prefixes, suffixes and substrings are computed, not assumed.  The glyph *)
(* U+0394 is the one-element token "Delta".  Times are integers (ticks of  *)
(* one second); the code only compares and adds them.                      *)
(*                                                                         *)
(* A call of a function is a state: `call` holds the operation and its     *)
(* arguments, `frame` the locals of a function modelled loop by loop,      *)
(* `ret` what it returned or raised, `pc` the position in the call, and    *)
(* `store` what outlives the call: the data directory written by the       *)
(* practice pack and the job row read and written by the HTTP handlers.    *)
(***************************************************************************)
EXTENDS Integers, Sequences, FiniteSets, TLC

VARIABLES call, frame, ret, pc, store

vars == <<call, frame, ret, pc, store>>

(***************************************************************************)
(* Results: a returned value or a raised exception.                        *)
(***************************************************************************)
Return(v) == [exc |-> "none", val |-> v]

Raise(e) == [exc |-> e, val |-> <<>>]

NoResult == [exc |-> "pending", val |-> <<>>]

\* The locals of a call that has none.
NoFrame == [none |-> TRUE]

\* The store of a call that touches neither the data directory nor a job.
NoStore == [none |-> TRUE]

\* Python's None for an optional string (a root is never the empty string).
NoRoot == <<>>

\* Python's None for ChordEvent.end_sec (times are never negative).
NoEnd == -1

\* All sequences over S of length 0..n.
SeqsUpTo(S, n) == UNION {[1..k -> S] : k \in 0..n}

(***************************************************************************)
(* services/theory.py                                                      *)
(***************************************************************************)
PITCH_CLASS ==
    (<<"C">> :> 0) @@ (<<"C", "#">> :> 1) @@ (<<"D", "b">> :> 1) @@
    (<<"D">> :> 2) @@ (<<"D", "#">> :> 3) @@ (<<"E", "b">> :> 3) @@
    (<<"E">> :> 4) @@ (<<"F", "b">> :> 4) @@ (<<"E", "#">> :> 5) @@
    (<<"F">> :> 5) @@ (<<"F", "#">> :> 6) @@ (<<"G", "b">> :> 6) @@
    (<<"G">> :> 7) @@ (<<"G", "#">> :> 8) @@ (<<"A", "b">> :> 8) @@
    (<<"A">> :> 9) @@ (<<"A", "#">> :> 10) @@ (<<"B", "b">> :> 10) @@
    (<<"B">> :> 11) @@ (<<"C", "b">> :> 11) @@ (<<"B", "#">> :> 0)

SEMITONE_TO_NAME ==
    << <<"C">>, <<"D", "b">>, <<"D">>, <<"E", "b">>, <<"E">>, <<"F">>,
       <<"F", "#">>, <<"G">>, <<"A", "b">>, <<"A">>, <<"B", "b">>, <<"B">> >>

\* list[i] of Python: 0-based, negative indices count from the end, anything
\* else raises IndexError.
ListGet(list, i) ==
    IF i >= 0 /\ i < Len(list) THEN Return(list[i + 1])
    ELSE IF i < 0 /\ i >= -Len(list) THEN Return(list[Len(list) + i + 1])
    ELSE Raise("IndexError")

\* symbol[n:] of Python.
StrFrom(symbol, n) == SubSeq(symbol, n + 1, Len(symbol))

\* _ROOT_RE = ^([A-G][#b]?) matched at the start of the symbol; the optional
\* accidental is greedy.  NoRoot when there is no match.
ROOT_RE_match(symbol) ==
    IF Len(symbol) >= 1 /\ symbol[1] \in {"A", "B", "C", "D", "E", "F", "G"}
    THEN IF Len(symbol) >= 2 /\ symbol[2] \in {"#", "b"}
         THEN SubSeq(symbol, 1, 2)
         ELSE SubSeq(symbol, 1, 1)
    ELSE NoRoot

parse_key(key) ==
    IF key \notin DOMAIN PITCH_CLASS
    THEN Raise("ValueError")
    ELSE Return(PITCH_CLASS[key])

\* Mutant: the signed difference, without the reduction mod 12.
semitone_interval_signed(source_key, target_key) ==
    LET t == parse_key(target_key)
        s == parse_key(source_key)
    IN  IF t.exc # "none" THEN t
        ELSE IF s.exc # "none" THEN s
        ELSE Return(t.val - s.val)

semitone_interval(source_key, target_key) ==
    LET t == parse_key(target_key)
        s == parse_key(source_key)
    IN  IF t.exc # "none" THEN t
        ELSE IF s.exc # "none" THEN s
        ELSE Return((t.val - s.val) % 12)

parse_chord_root(symbol) == ROOT_RE_match(symbol)

\* Mutant: the new semitone is not reduced mod 12 before the table lookup.
transpose_chord_symbol_nomod(symbol, interval) ==
    LET old_root == ROOT_RE_match(symbol)
    IN  IF old_root = NoRoot THEN Return(symbol)
        ELSE IF old_root \notin DOMAIN PITCH_CLASS THEN Return(symbol)
        ELSE LET new_semitone == PITCH_CLASS[old_root] + interval
                 new_root == ListGet(SEMITONE_TO_NAME, new_semitone)
             IN  IF new_root.exc # "none" THEN new_root
                 ELSE Return(new_root.val \o StrFrom(symbol, Len(old_root)))

\* Mutant: an interval of 0 mod 12 short-cuts to the unchanged symbol.
transpose_chord_symbol_shortcut(symbol, interval) ==
    LET old_root == ROOT_RE_match(symbol)
    IN  IF old_root = NoRoot \/ interval % 12 = 0 THEN Return(symbol)
        ELSE IF old_root \notin DOMAIN PITCH_CLASS THEN Return(symbol)
        ELSE LET new_semitone == (PITCH_CLASS[old_root] + interval) % 12
                 new_root == ListGet(SEMITONE_TO_NAME, new_semitone)
             IN  IF new_root.exc # "none" THEN new_root
                 ELSE Return(new_root.val \o StrFrom(symbol, Len(old_root)))

transpose_chord_symbol(symbol, interval) ==
    LET old_root == ROOT_RE_match(symbol)
    IN  IF old_root = NoRoot THEN Return(symbol)
        ELSE IF old_root \notin DOMAIN PITCH_CLASS THEN Return(symbol)
        ELSE LET new_semitone == (PITCH_CLASS[old_root] + interval) % 12
                 new_root == ListGet(SEMITONE_TO_NAME, new_semitone)
             IN  IF new_root.exc # "none" THEN new_root
                 ELSE Return(new_root.val \o StrFrom(symbol, Len(old_root)))


(***************************************************************************)
(* services/analysis.py                                                    *)
(***************************************************************************)
_CHORD_TONES ==
    [maj7 |-> {0, 4, 7, 11}, min7 |-> {0, 3, 7, 10}, dom7 |-> {0, 4, 7, 10}]

_TENSIONS ==
    [maj7 |-> {2, 6, 9}, min7 |-> {2, 5, 9}, dom7 |-> {1, 2, 5, 6, 9}]

\* Python's None for Optional[int] (a pitch class is never negative).
NoSemitone == -1

\* Python's None for Optional[ChordEvent].
NoChord == [none |-> TRUE]

\* sub in s of Python strings.
StrIn(sub, s) ==
    \E i \in 0..(Len(s) - Len(sub)) : SubSeq(s, i + 1, i + Len(sub)) = sub

\* Mutant: the '7' test comes before the 'm' test.
_chord_quality_7_first(symbol) ==
    LET root == parse_chord_root(symbol)
        suffix == IF root # NoRoot THEN StrFrom(symbol, Len(root)) ELSE symbol
    IN  IF StrIn(<<"m", "a", "j">>, suffix) \/ StrIn(<<"Delta">>, suffix)
        THEN "maj7"
        ELSE IF StrIn(<<"7">>, suffix) THEN "dom7"
        ELSE IF StrIn(<<"m">>, suffix) THEN "min7"
        ELSE "maj7"

_chord_quality(symbol) ==
    LET root == parse_chord_root(symbol)
        suffix == IF root # NoRoot THEN StrFrom(symbol, Len(root)) ELSE symbol
    IN  IF StrIn(<<"m", "a", "j">>, suffix) \/ StrIn(<<"Delta">>, suffix)
        THEN "maj7"
        ELSE IF StrIn(<<"m">>, suffix) THEN "min7"
        ELSE IF StrIn(<<"7">>, suffix) THEN "dom7"
        ELSE "maj7"

_root_semitone(symbol) ==
    LET root == parse_chord_root(symbol)
    IN  IF root = NoRoot THEN NoSemitone
        ELSE IF root \in DOMAIN PITCH_CLASS THEN PITCH_CLASS[root]
        ELSE NoSemitone

classify_note_against_chord(note_pitch_midi, chord_symbol) ==
    LET root_pc == _root_semitone(chord_symbol)
    IN  IF root_pc = NoSemitone THEN "other"
        ELSE LET quality == _chord_quality(chord_symbol)
                 note_pc == note_pitch_midi % 12
                 interval == (note_pc - root_pc) % 12
             IN  IF interval \in _CHORD_TONES[quality] THEN "chord_tone"
                 ELSE IF interval \in _TENSIONS[quality] THEN "tension"
                 ELSE "other"

\* The chord's test of _find_active_chord.
IsActiveAt(c, t) == c.start_sec <= t /\ (c.end_sec = NoEnd \/ c.end_sec > t)

\* for c in reversed(chords), from index i (1-based) down.
RECURSIVE ScanReversed(_, _, _)
ScanReversed(t, chords, i) ==
    IF i = 0 THEN NoChord
    ELSE IF IsActiveAt(chords[i], t) THEN chords[i]
    ELSE ScanReversed(t, chords, i - 1)

\* for c in chords, from index i (1-based) up.
RECURSIVE ScanForward(_, _, _)
ScanForward(t, chords, i) ==
    IF i > Len(chords) THEN NoChord
    ELSE IF IsActiveAt(chords[i], t) THEN chords[i]
    ELSE ScanForward(t, chords, i + 1)

\* Mutant: the list is scanned in forward order.
_find_active_chord_forward(t, chords) == ScanForward(t, chords, 1)

_find_active_chord(t, chords) == ScanReversed(t, chords, Len(chords))

\* sorted(chords, key=lambda c: c.start_sec): a stable sort, built by
\* inserting each element after the elements whose key is not greater.
InsertByStart(s, x) ==
    LET k == Cardinality({i \in 1..Len(s) : s[i].start_sec <= x.start_sec})
    IN  SubSeq(s, 1, k) \o <<x>> \o SubSeq(s, k + 1, Len(s))

RECURSIVE sorted_by_start(_)
sorted_by_start(chords) ==
    IF chords = <<>> THEN <<>>
    ELSE InsertByStart(sorted_by_start(SubSeq(chords, 1, Len(chords) - 1)),
                       chords[Len(chords)])

\* Mutant: the quotient is the integer quotient.
Pct_floor_division(count, total) ==
    IF total = 0 THEN 0 ELSE 1000 * (count \div total)

\* round(count / total, 3) if total else 0.0, in thousandths.  The quotient
\* is never half-way between two thousandths for total < 16.
Pct(count, total) ==
    IF total = 0 THEN 0 ELSE (2000 * count + total) \div (2 * total)

\* The locals of compute_coverage before its loop.
coverage_enter(chords) ==
    [chord_tone_count |-> 0, tension_count |-> 0, other_count |-> 0,
     sorted_chords |-> sorted_by_start(chords),
     seen |-> 0, n |-> NoFrame, label |-> "none"]

\* Mutant: the chord is looked up at the note's end.
coverage_body_at_end(f, n) ==
    LET active == _find_active_chord(n.start_sec + n.duration_sec,
                                     f.sorted_chords)
        label == IF active = NoChord THEN "other"
                 ELSE classify_note_against_chord(n.pitch_midi, active.symbol)
    IN  [f EXCEPT
           !.chord_tone_count = @ + (IF label = "chord_tone" THEN 1 ELSE 0),
           !.tension_count = @ + (IF label = "tension" THEN 1 ELSE 0),
           !.other_count = @ + (IF label = "other" THEN 1 ELSE 0),
           !.seen = @ + 1, !.n = n, !.label = label]

\* One iteration of `for n in notes` of compute_coverage: `seen` counts the
\* notes iterated so far, `n` and `label` are the note and its bucket.
coverage_body(f, n) ==
    LET active == _find_active_chord(n.start_sec, f.sorted_chords)
        label == IF active = NoChord THEN "other"
                 ELSE classify_note_against_chord(n.pitch_midi, active.symbol)
    IN  [f EXCEPT
           !.chord_tone_count = @ + (IF label = "chord_tone" THEN 1 ELSE 0),
           !.tension_count = @ + (IF label = "tension" THEN 1 ELSE 0),
           !.other_count = @ + (IF label = "other" THEN 1 ELSE 0),
           !.seen = @ + 1, !.n = n, !.label = label]

\* The CoverageMetrics compute_coverage returns after the loop; total is
\* len(notes), the number of iterations.
coverage_return(f) ==
    [total_notes |-> f.seen,
     chord_tone_notes |-> f.chord_tone_count,
     tension_notes |-> f.tension_count,
     other_notes |-> f.other_count,
     chord_tone_pct |-> Pct(f.chord_tone_count, f.seen),
     tension_pct |-> Pct(f.tension_count, f.seen)]

IiVIEvent(c1, c2, c3) ==
    [start_sec |-> c1.start_sec,
     end_sec |-> IF c3.end_sec # NoEnd THEN c3.end_sec ELSE c3.start_sec,
     chords |-> <<c1.symbol, c2.symbol, c3.symbol>>,
     key_guess |-> parse_chord_root(c3.symbol)]

\* The test of one window of detect_ii_v_i: TRUE when the loop body reaches
\* results.append.
IiVIMatch(c1, c2, c3) ==
    LET q1 == _chord_quality(c1.symbol)
        q2 == _chord_quality(c2.symbol)
        q3 == _chord_quality(c3.symbol)
        r1 == _root_semitone(c1.symbol)
        r2 == _root_semitone(c2.symbol)
        r3 == _root_semitone(c3.symbol)
    IN  IF q1 # "min7" \/ q2 # "dom7" \/ q3 # "maj7" THEN FALSE
        ELSE IF r1 = NoSemitone \/ r2 = NoSemitone \/ r3 = NoSemitone
        THEN FALSE
        ELSE IF (r2 - r1) % 12 # 5 THEN FALSE
        ELSE IF (r3 - r2) % 12 # 5 THEN FALSE
        ELSE TRUE

\* for i in range(len(sorted_chords) - 2), from i (0-based) on.
RECURSIVE IiVILoop(_, _, _)
IiVILoop(sorted_chords, i, results) ==
    IF i >= Len(sorted_chords) - 2 THEN results
    ELSE LET c1 == sorted_chords[i + 1]
             c2 == sorted_chords[i + 2]
             c3 == sorted_chords[i + 3]
         IN  IiVILoop(sorted_chords, i + 1,
                      IF IiVIMatch(c1, c2, c3)
                      THEN Append(results, IiVIEvent(c1, c2, c3))
                      ELSE results)

\* Mutant: the chords are taken in input order, not sorted by start.
detect_ii_v_i_unsorted(chords) ==
    IF Len(chords) < 3 THEN <<>> ELSE IiVILoop(chords, 0, <<>>)

detect_ii_v_i(chords) ==
    IF Len(chords) < 3 THEN <<>>
    ELSE IiVILoop(sorted_by_start(chords), 0, <<>>)

(***************************************************************************)
(* routes/jobs.py: the selection window filter.                            *)
(***************************************************************************)
\* Mutant: the window is closed at its end (<= instead of <).
_extract_lick_closed(transcription, start_sec, end_sec) ==
    LET keep_note(n) ==
            n.start_sec <= end_sec /\ (n.start_sec + n.duration_sec) > start_sec
        keep_chord(c) ==
            c.start_sec <= end_sec /\ (c.end_sec = NoEnd \/ c.end_sec > start_sec)
    IN  [notes |-> SelectSeq(transcription.notes, keep_note),
         chords |-> SelectSeq(transcription.chords, keep_chord)]

_extract_lick(transcription, start_sec, end_sec) ==
    LET keep_note(n) ==
            n.start_sec < end_sec /\ (n.start_sec + n.duration_sec) > start_sec
        keep_chord(c) ==
            c.start_sec < end_sec /\ (c.end_sec = NoEnd \/ c.end_sec > start_sec)
    IN  [notes |-> SelectSeq(transcription.notes, keep_note),
         chords |-> SelectSeq(transcription.chords, keep_chord)]

(***************************************************************************)
(* services/musicxml.py: measure partition with ties.                      *)
(***************************************************************************)
\* _GRID_DIVISIONS.get(grid, 4)
GRID_DIVISIONS_get(grid) ==
    IF grid = 8 THEN 2 ELSE IF grid = 16 THEN 8 ELSE 4

\* divs_per_measure = beats_per_measure * divs_per_beat
DivsPerMeasure(grid, beats_per_measure) ==
    beats_per_measure * GRID_DIVISIONS_get(grid)

Min(a, b) == IF a <= b THEN a ELSE b

\* Mutant: a chunk is cut at one measure length, not at the next barline.
RECURSIVE SplitLoopWholeMeasure(_, _, _, _, _, _)
SplitLoopWholeMeasure(remaining, cur_pos, is_first, midi, divs_per_measure, segs) ==
    IF remaining <= 0 THEN segs
    ELSE LET mi == cur_pos \div divs_per_measure
             off == cur_pos % divs_per_measure
             chunk == Min(remaining, divs_per_measure)
             is_last == (remaining - chunk) <= 0
         IN  SplitLoopWholeMeasure(remaining - chunk, cur_pos + chunk, FALSE,
                 midi, divs_per_measure,
                 Append(segs, [mi |-> mi, off |-> off, chunk |-> chunk,
                               midi |-> midi, t_start |-> ~is_last,
                               t_stop |-> ~is_first]))

\* Mutant: the last chunk is not recognised, every segment starts a tie.
RECURSIVE SplitLoopNoLast(_, _, _, _, _, _)
SplitLoopNoLast(remaining, cur_pos, is_first, midi, divs_per_measure, segs) ==
    IF remaining <= 0 THEN segs
    ELSE LET mi == cur_pos \div divs_per_measure
             off == cur_pos % divs_per_measure
             space == divs_per_measure - off
             chunk == Min(remaining, space)
             is_last == (remaining - chunk) < 0
         IN  SplitLoopNoLast(remaining - chunk, cur_pos + chunk, FALSE,
                 midi, divs_per_measure,
                 Append(segs, [mi |-> mi, off |-> off, chunk |-> chunk,
                               midi |-> midi, t_start |-> ~is_last,
                               t_stop |-> ~is_first]))

\* while remaining > 0: one segment (off, chunk, midi, t_start, t_stop) is
\* appended to notes_by_m[mi]; segs lists them in the order appended.
RECURSIVE SplitLoop(_, _, _, _, _, _)
SplitLoop(remaining, cur_pos, is_first, midi, divs_per_measure, segs) ==
    IF remaining <= 0 THEN segs
    ELSE LET mi == cur_pos \div divs_per_measure
             off == cur_pos % divs_per_measure
             space == divs_per_measure - off
             chunk == Min(remaining, space)
             is_last == (remaining - chunk) <= 0
         IN  SplitLoop(remaining - chunk, cur_pos + chunk, FALSE,
                 midi, divs_per_measure,
                 Append(segs, [mi |-> mi, off |-> off, chunk |-> chunk,
                               midi |-> midi, t_start |-> ~is_last,
                               t_stop |-> ~is_first]))

split_note_whole_measure(s, d, midi, divs_per_measure) ==
    SplitLoopWholeMeasure(d, s, TRUE, midi, divs_per_measure, <<>>)

split_note_no_last(s, d, midi, divs_per_measure) ==
    SplitLoopNoLast(d, s, TRUE, midi, divs_per_measure, <<>>)

\* The body of `for s, d, midi in note_grid` for one quantized note.
split_note(s, d, midi, divs_per_measure) ==
    SplitLoop(d, s, TRUE, midi, divs_per_measure, <<>>)

(***************************************************************************)
(* Specification SpecTheory: calls of the theory functions.                *)
(***************************************************************************)
MaxSymLen == 3

MaxInterval == 13

\* Characters of the chord symbols given to transpose_chord_symbol: root
\* letters, both accidentals, quality text and a lower-case letter.
SymChars == {"C", "E", "B", "#", "b", "m", "7", "c"}

KeyNames == DOMAIN PITCH_CLASS

\* Strings that are no key of the enharmonic table.
BadKeys ==
    { <<>>, <<"H">>, <<"c">>, <<"#">>, <<"b">>, <<"C", "m">>,
      <<"C", "b", "b">>, <<"b", "B">>, <<"C", "7">> }

TransposeSymbols == SeqsUpTo(SymChars, MaxSymLen) \cup KeyNames

TheoryCalls ==
    [op : {"transpose_chord_symbol"}, symbol : TransposeSymbols,
     interval : (-MaxInterval)..MaxInterval]
    \cup [op : {"round_trip"}, symbol : KeyNames, s : 0..11]
    \cup [op : {"semitone_interval"}, source_key : KeyNames \cup BadKeys,
          target_key : KeyNames \cup BadKeys]

InitTheory ==
    /\ call \in TheoryCalls
    /\ frame = NoFrame /\ ret = NoResult /\ pc = "call"
    /\ store = NoStore

TransposeChordSymbol ==
    /\ pc = "call" /\ call.op = "transpose_chord_symbol"
    /\ ret' = transpose_chord_symbol(call.symbol, call.interval)
    /\ pc' = "done"
    /\ UNCHANGED <<call, frame, store>>

\* transpose_chord_symbol applied to a root by s, then to the result by
\* (12 - s) mod 12.
RoundTrip ==
    /\ pc = "call" /\ call.op = "round_trip"
    /\ LET there == transpose_chord_symbol(call.symbol, call.s)
       IN  ret' = IF there.exc # "none" THEN there
                  ELSE transpose_chord_symbol(there.val, (12 - call.s) % 12)
    /\ pc' = "done"
    /\ UNCHANGED <<call, frame, store>>

SemitoneInterval ==
    /\ pc = "call" /\ call.op = "semitone_interval"
    /\ ret' = semitone_interval(call.source_key, call.target_key)
    /\ pc' = "done"
    /\ UNCHANGED <<call, frame, store>>

NextTheory == TransposeChordSymbol \/ RoundTrip \/ SemitoneInterval

SpecTheory == InitTheory /\ [][NextTheory]_vars


(***************************************************************************)
(* Inputs of the analysis functions: chord symbols, chords and notes.      *)
(***************************************************************************)
Dm7 == <<"D", "m", "7">>

G7 == <<"G", "7">>

Cmaj7 == <<"C", "m", "a", "j", "7">>

Db7 == <<"D", "b", "7">>

\* The "no chord" symbol of the transcription provider: it has no root.
NoChordSymbol == <<"N">>

\* ChordEvents over the given symbols and start times; an end, if present,
\* is greater than the start and among `ends`.
ChordEvents(symbols, starts, ends) ==
    {c \in [symbol : symbols, start_sec : starts, end_sec : ends \cup {NoEnd}] :
        c.end_sec = NoEnd \/ c.end_sec > c.start_sec}

NoteEvents(pitches, starts, durations) ==
    [pitch_midi : pitches, start_sec : starts, duration_sec : durations]

IsSortedByStart(chords) ==
    \A i \in 1..(Len(chords) - 1) : chords[i].start_sec <= chords[i + 1].start_sec

(***************************************************************************)
(* Specification SpecQuality: calls of _chord_quality.                     *)
(***************************************************************************)
MaxQualityLen == 4

QualityChars == {"C", "b", "m", "a", "j", "7", "d", "i", "Delta"}

InitQuality ==
    /\ call \in [op : {"_chord_quality"},
                 symbol : SeqsUpTo(QualityChars, MaxQualityLen)]
    /\ frame = NoFrame /\ ret = NoResult /\ pc = "call"
    /\ store = NoStore

ChordQuality ==
    /\ pc = "call" /\ call.op = "_chord_quality"
    /\ ret' = Return(_chord_quality(call.symbol))
    /\ pc' = "done"
    /\ UNCHANGED <<call, frame, store>>

NextQuality == ChordQuality

SpecQuality == InitQuality /\ [][NextQuality]_vars

(***************************************************************************)
(* Specification SpecActive: calls of _find_active_chord on chord lists    *)
(* sorted ascending by start, as compute_coverage passes them.             *)
(***************************************************************************)
MaxActiveChords == 3

ActiveChordEvents == ChordEvents({Dm7, G7}, {0, 1, 2}, {1, 2, 3})

InitActive ==
    /\ call \in {c \in [op : {"_find_active_chord"}, t : 0..3,
                        chords : SeqsUpTo(ActiveChordEvents, MaxActiveChords)] :
                    IsSortedByStart(c.chords)}
    /\ frame = NoFrame /\ ret = NoResult /\ pc = "call"
    /\ store = NoStore

FindActiveChord ==
    /\ pc = "call" /\ call.op = "_find_active_chord"
    /\ ret' = Return(_find_active_chord(call.t, call.chords))
    /\ pc' = "done"
    /\ UNCHANGED <<call, frame, store>>

NextActive == FindActiveChord

SpecActive == InitActive /\ [][NextActive]_vars

(***************************************************************************)
(* Specification SpecCoverage: compute_coverage, one loop iteration per    *)
(* step.  The chord list is an argument; the notes are drawn one by one as *)
(* the loop reaches them, and the list ends where the function returns.    *)
(***************************************************************************)
MaxCovChords == 2

MaxCovNotes == 2

\* Chords over [0, open), [0, 2) and [1, 2): overlapping, ended, not begun.
CovChordEvents ==
    {c \in ChordEvents({Cmaj7, G7, Dm7, NoChordSymbol}, {0, 1}, {2}) :
        <<c.start_sec, c.end_sec>> # <<1, NoEnd>>}

\* Pitches C, D and F (an octave up): each of the three buckets against Cmaj7.
CovNoteEvents == NoteEvents({60, 62, 77}, {0, 1, 2}, {1, 3})

InitCoverage ==
    /\ \E k \in 0..MaxCovChords :
          call \in [op : {"compute_coverage"}, chords : [1..k -> CovChordEvents]]
    /\ frame = NoFrame /\ ret = NoResult /\ pc = "call"
    /\ store = NoStore

CoverageEnter ==
    /\ pc = "call" /\ call.op = "compute_coverage"
    /\ frame' = coverage_enter(call.chords)
    /\ pc' = "loop"
    /\ UNCHANGED <<call, ret, store>>

CoverageBody ==
    /\ pc = "loop" /\ call.op = "compute_coverage"
    /\ frame.seen < MaxCovNotes
    /\ \E n \in CovNoteEvents : frame' = coverage_body(frame, n)
    /\ UNCHANGED <<call, ret, pc, store>>

CoverageReturn ==
    /\ pc = "loop" /\ call.op = "compute_coverage"
    /\ ret' = Return(coverage_return(frame))
    /\ pc' = "done"
    /\ UNCHANGED <<call, frame, store>>

NextCoverage == CoverageEnter \/ CoverageBody \/ CoverageReturn

SpecCoverage == InitCoverage /\ [][NextCoverage]_vars

(***************************************************************************)
(* Specification SpecIiVI: calls of detect_ii_v_i.                         *)
(***************************************************************************)
MaxIiVIChords == 4

\* A chord symbol without a root, of the minor-seventh bucket.
RootlessM7 == <<"m", "7">>

\* Every chord lasts 2 seconds; the major-seventh chord, the only one that
\* can close a match and have its end read, is also open-ended when it has
\* the last start.
IiVIChordEvents ==
    {c \in ChordEvents({Dm7, G7, Cmaj7, Db7, RootlessM7}, {0, 2, 4}, {2, 4, 6}) :
        \/ c.end_sec = c.start_sec + 2
        \/ c.end_sec = NoEnd /\ c.symbol = Cmaj7 /\ c.start_sec = 4}

InitIiVI ==
    /\ \E k \in 0..MaxIiVIChords :
          call \in [op : {"detect_ii_v_i"}, chords : [1..k -> IiVIChordEvents]]
    /\ frame = NoFrame /\ ret = NoResult /\ pc = "call"
    /\ store = NoStore

DetectIiVI ==
    /\ pc = "call" /\ call.op = "detect_ii_v_i"
    /\ ret' = Return(detect_ii_v_i(call.chords))
    /\ pc' = "done"
    /\ UNCHANGED <<call, frame, store>>

NextIiVI == DetectIiVI

SpecIiVI == InitIiVI /\ [][NextIiVI]_vars

(***************************************************************************)
(* Specification SpecLick: calls of _extract_lick on a transcription and a *)
(* window the caller has validated (0 <= start < end).                     *)
(***************************************************************************)
MaxLickNotes == 2

MaxLickChords == 2

\* Notes (start, duration) and chords (start, end) around the window bounds
\* 0..3: ending at a bound, starting at a bound, lying across one.
LickNoteEvents ==
    {n \in NoteEvents({72, 76}, {0, 1, 2}, {1, 2}) :
        <<n.start_sec, n.duration_sec>> \in {<<0, 1>>, <<1, 2>>, <<2, 1>>}}

LickChordEvents ==
    {c \in ChordEvents({Dm7, G7}, {0, 1, 2}, {2}) :
        <<c.start_sec, c.end_sec>> \in
            {<<0, 2>>, <<1, 2>>, <<0, NoEnd>>, <<2, NoEnd>>}}

LickWindows == {w \in (0..2) \X (1..3) : w[1] < w[2]}

InitLick ==
    /\ call \in [op : {"_extract_lick"},
                 transcription : [notes : SeqsUpTo(LickNoteEvents, MaxLickNotes),
                                  chords : SeqsUpTo(LickChordEvents, MaxLickChords)],
                 window : LickWindows]
    /\ frame = NoFrame /\ ret = NoResult /\ pc = "call"
    /\ store = NoStore

ExtractLick ==
    /\ pc = "call" /\ call.op = "_extract_lick"
    /\ ret' = Return(_extract_lick(call.transcription,
                                   call.window[1], call.window[2]))
    /\ pc' = "done"
    /\ UNCHANGED <<call, frame, store>>

NextLick == ExtractLick

SpecLick == InitLick /\ [][NextLick]_vars

(***************************************************************************)
(* Specification SpecTies: the tie split of one quantized note, for both   *)
(* grids and time signatures of 1, 3 and 4 beats.                          *)
(***************************************************************************)
MaxStart == 40

MaxDuration == 50

Grids == {8, 16}

BeatsPerMeasure == {1, 3, 4}

InitTies ==
    /\ call \in [op : {"split_note"}, grid : Grids, beats : BeatsPerMeasure,
                 s : 0..MaxStart, d : 1..MaxDuration, midi : {60}]
    /\ frame = NoFrame /\ ret = NoResult /\ pc = "call"
    /\ store = NoStore

SplitNote ==
    /\ pc = "call" /\ call.op = "split_note"
    /\ ret' = Return(split_note(call.s, call.d, call.midi,
                                DivsPerMeasure(call.grid, call.beats)))
    /\ pc' = "done"
    /\ UNCHANGED <<call, frame, store>>

NextTies == SplitNote

SpecTies == InitTies /\ [][NextTies]_vars

(***************************************************************************)
(* Claims checked under SpecTheory.                                        *)
(***************************************************************************)
Done(op) == pc = "done" /\ call.op = op

RootLetters == {"A", "B", "C", "D", "E", "F", "G"}

\* Length of the root a symbol starts with, 0 when it starts with none: a
\* capital letter A-G optionally followed by '#' or 'b'.
C1_RootLen(symbol) ==
    IF Len(symbol) = 0 \/ symbol[1] \notin RootLetters THEN 0
    ELSE IF Len(symbol) >= 2 /\ symbol[2] \in {"#", "b"} THEN 2
    ELSE 1

\* C1: transpose_chord_symbol returns for every symbol and every integer
\* interval and never raises; a symbol that does not start with a root comes
\* back unchanged; otherwise the result is
\* SEMITONE_TO_NAME[(pitch class of the root + interval) mod 12] followed by
\* the text after the root, character for character.
C1_TransposeTotal ==
    Done("transpose_chord_symbol") =>
        LET symbol == call.symbol
            n == C1_RootLen(symbol)
        IN  /\ ret.exc = "none"
            /\ IF n = 0 THEN ret.val = symbol
               ELSE LET root == SubSeq(symbol, 1, n)
                        name == SEMITONE_TO_NAME[
                                  ((PITCH_CLASS[root] + call.interval) % 12) + 1]
                    IN  /\ Len(ret.val) = Len(name) + Len(symbol) - n
                        /\ SubSeq(ret.val, 1, Len(name)) = name
                        /\ \A k \in 1..(Len(symbol) - n) :
                              ret.val[Len(name) + k] = symbol[n + k]

\* Witness of C1: a two-character root with a suffix is transposed downward
\* by more than an octave and the root changes its length.
C1_Witness ==
    /\ Done("transpose_chord_symbol")
    /\ call.symbol = <<"C", "#", "m">> /\ call.interval = -13
    /\ ret = Return(<<"C", "m">>)

\* Witness of C1, the pass-through case: a symbol without a root.
C1_WitnessUnparseable ==
    /\ Done("transpose_chord_symbol")
    /\ call.symbol = <<"b", "B", "7">> /\ call.interval = 5
    /\ ret = Return(<<"b", "B", "7">>)

\* C2 as stated: for every key name K of the enharmonic table and every s in
\* 0..11, transposing K by s and the result by (12 - s) mod 12 restores the
\* exact spelling K.
C2_RoundTripRestoresSpelling ==
    Done("round_trip") => (ret.exc = "none" /\ ret.val = call.symbol)

CanonicalNames == {SEMITONE_TO_NAME[i] : i \in 1..12}

\* C2 as amended: the round trip restores K exactly when K is one of the 12
\* canonical spellings; for each of the other nine spellings it returns the
\* canonical spelling of K's pitch class, which differs from K.
C2_RoundTripCanonical ==
    Done("round_trip") =>
        /\ ret.exc = "none"
        /\ ret.val = SEMITONE_TO_NAME[PITCH_CLASS[call.symbol] + 1]
        /\ (call.symbol \in CanonicalNames => ret.val = call.symbol)
        /\ (call.symbol \notin CanonicalNames => ret.val # call.symbol)
        /\ (call.symbol = <<"C", "#">> => ret.val = <<"D", "b">>)
        /\ (call.symbol = <<"G", "b">> => ret.val = <<"F", "#">>)
        /\ (call.symbol = <<"F", "#">> => ret.val = <<"F", "#">>)

\* Witness of C2: the sharp canonical root survives a round trip by a fourth.
C2_Witness ==
    /\ Done("round_trip")
    /\ call.symbol = <<"F", "#">> /\ call.s = 5
    /\ ret = Return(<<"F", "#">>)

\* C3: for key names of the table semitone_interval returns
\* (pitchClass(target) - pitchClass(source)) mod 12, a value in 0..11; if
\* either name is not in the table the call fails with the unknown-key error.
C3_SemitoneInterval ==
    Done("semitone_interval") =>
        IF call.source_key \in KeyNames /\ call.target_key \in KeyNames
        THEN /\ ret.exc = "none"
             /\ ret.val \in 0..11
             /\ ret.val = (PITCH_CLASS[call.target_key]
                            - PITCH_CLASS[call.source_key]) % 12
        ELSE ret.exc = "ValueError"

\* Witness of C3: a downward pair of keys yields the upward distance.
C3_Witness ==
    /\ Done("semitone_interval")
    /\ call.source_key = <<"G">> /\ call.target_key = <<"D", "b">>
    /\ ret = Return(6)

\* Witness of C3, the failing case: an unknown target key.
C3_WitnessUnknownKey ==
    /\ Done("semitone_interval")
    /\ call.source_key = <<"C">> /\ call.target_key = <<"H">>
    /\ ret.exc = "ValueError"


(***************************************************************************)
(* Claims checked under SpecCoverage, SpecActive, SpecQuality, SpecIiVI.   *)
(***************************************************************************)
\* sub occurs in s, character by character.
Contains(sub, s) ==
    \E i \in 1..Len(s) :
        /\ i + Len(sub) - 1 <= Len(s)
        /\ \A k \in 1..Len(sub) : s[i + k - 1] = sub[k]

\* The text after the root, the whole symbol when it starts with no root.
SuffixOf(symbol) == SubSeq(symbol, C1_RootLen(symbol) + 1, Len(symbol))

\* The quality bucket in the stated priority.
BucketOf(symbol) ==
    LET suffix == SuffixOf(symbol)
    IN  CASE Contains(<<"m", "a", "j">>, suffix) -> "maj7"
          [] Contains(<<"Delta">>, suffix) -> "maj7"
          [] Contains(<<"m">>, suffix) -> "min7"
          [] Contains(<<"7">>, suffix) -> "dom7"
          [] OTHER -> "maj7"

\* The pitch class of the root a symbol starts with.
RootPitchClassOf(symbol) == PITCH_CLASS[SubSeq(symbol, 1, C1_RootLen(symbol))]

\* The bucket of a pitch against a chord symbol.
LabelOf(pitch, symbol) ==
    IF C1_RootLen(symbol) = 0 THEN "other"
    ELSE LET interval == ((pitch % 12) - RootPitchClassOf(symbol)) % 12
         IN  IF interval \in _CHORD_TONES[BucketOf(symbol)] THEN "chord_tone"
             ELSE IF interval \in _TENSIONS[BucketOf(symbol)] THEN "tension"
             ELSE "other"

\* The chords of a list that are active at time t, and the latest-starting
\* among them.
ActiveAt(chords, t) ==
    {i \in 1..Len(chords) :
        /\ chords[i].start_sec <= t
        /\ (chords[i].end_sec = NoEnd \/ chords[i].end_sec > t)}

LatestActiveAt(chords, t) ==
    {i \in ActiveAt(chords, t) :
        \A j \in ActiveAt(chords, t) : chords[j].start_sec <= chords[i].start_sec}

Counters(f) == <<f.chord_tone_count, f.tension_count, f.other_count>>

UnitOf(label) ==
    <<IF label = "chord_tone" THEN 1 ELSE 0,
      IF label = "tension" THEN 1 ELSE 0,
      IF label = "other" THEN 1 ELSE 0>>

\* What C4 says of one step of compute_coverage.
C4_Step ==
    /\ (pc = "call" /\ pc' = "loop") =>
          Counters(frame') = <<0, 0, 0>> /\ frame'.seen = 0
    /\ (pc = "loop" /\ pc' = "loop") =>
          LET n == frame'.n
              latest == LatestActiveAt(call.chords, n.start_sec)
          IN  /\ frame'.seen = frame.seen + 1
              /\ frame'.label \in {"chord_tone", "tension", "other"}
              /\ IF latest = {} THEN frame'.label = "other"
                 ELSE \E i \in latest :
                        frame'.label = LabelOf(n.pitch_midi, call.chords[i].symbol)
              /\ \A k \in 1..3 :
                    Counters(frame')[k] = Counters(frame)[k] + UnitOf(frame'.label)[k]
    /\ (pc = "loop" /\ pc' = "done") =>
          /\ ret'.exc = "none"
          /\ ret'.val.total_notes = frame.seen
          /\ ret'.val.chord_tone_notes = frame.chord_tone_count
          /\ ret'.val.tension_notes = frame.tension_count
          /\ ret'.val.other_notes = frame.other_count
          /\ ret'.val.total_notes =
                ret'.val.chord_tone_notes + ret'.val.tension_notes
                + ret'.val.other_notes

\* C4: compute_coverage puts every note in exactly one of the three buckets,
\* decided by the chord active at the note's start alone (no active chord or
\* no root: other; else the interval from the root looked up in the bucket's
\* chord-tone set, then its tension set), and total_notes = number of notes =
\* chord_tone_notes + tension_notes + other_notes.
C4_CoverageBuckets == [][C4_Step]_vars

\* Witness of C4: two notes over one major-seventh chord, a chord tone and then
\* a tension whose duration runs past the chord's end, have been counted.
C4_Witness ==
    /\ Done("compute_coverage")
    /\ call.chords = <<[symbol |-> Cmaj7, start_sec |-> 0, end_sec |-> 2]>>
    /\ frame.n = [pitch_midi |-> 62, start_sec |-> 1, duration_sec |-> 3]
    /\ frame.label = "tension"
    /\ ret.val.total_notes = 2
    /\ ret.val.chord_tone_notes = 1 /\ ret.val.tension_notes = 1

\* C5: on a chord list sorted ascending by start, _find_active_chord returns
\* a chord of the greatest start among those with start <= t and (end absent
\* or end > t), and none exactly when no chord satisfies the condition.
C5_LatestActiveChord ==
    Done("_find_active_chord") =>
        LET chords == call.chords
            t == call.t
        IN  /\ ret.exc = "none"
            /\ (ret.val = NoChord) <=> (ActiveAt(chords, t) = {})
            /\ ret.val # NoChord =>
                  \E i \in LatestActiveAt(chords, t) : ret.val = chords[i]

\* Witness of C5: of two overlapping active chords the later-starting one is
\* returned, while a third chord that ends at t is passed over.
C5_Witness ==
    /\ Done("_find_active_chord")
    /\ call.t = 1
    /\ call.chords = <<[symbol |-> G7, start_sec |-> 0, end_sec |-> 1],
                       [symbol |-> Dm7, start_sec |-> 0, end_sec |-> NoEnd],
                       [symbol |-> G7, start_sec |-> 1, end_sec |-> 3]>>
    /\ ret.val = [symbol |-> G7, start_sec |-> 1, end_sec |-> 3]

\* Witness of C5, no active chord: the only chord has ended at t.
C5_WitnessNone ==
    /\ Done("_find_active_chord")
    /\ call.t = 2
    /\ call.chords = <<[symbol |-> Dm7, start_sec |-> 0, end_sec |-> 2]>>
    /\ ret.val = NoChord

\* C6 as stated: the bucket follows the priority maj/delta, m, 7, default
\* maj7 on the text after the root, is one of the three buckets, and every
\* suffix containing 'dim' and not 'maj' is min7.
C6_QualityDimNotMaj ==
    Done("_chord_quality") =>
        LET suffix == SuffixOf(call.symbol)
        IN  /\ ret.val = BucketOf(call.symbol)
            /\ ret.val \in {"maj7", "min7", "dom7"}
            /\ (Contains(<<"d", "i", "m">>, suffix)
                /\ ~Contains(<<"m", "a", "j">>, suffix)) => ret.val = "min7"

\* C6 as amended: the same, with the 'dim' clause for every suffix that
\* contains 'dim' and neither 'maj' nor the delta glyph.
C6_QualityPriority ==
    Done("_chord_quality") =>
        LET suffix == SuffixOf(call.symbol)
        IN  /\ ret.val = BucketOf(call.symbol)
            /\ ret.val \in {"maj7", "min7", "dom7"}
            /\ (Contains(<<"d", "i", "m">>, suffix)
                /\ ~Contains(<<"m", "a", "j">>, suffix)
                /\ ~Contains(<<"Delta">>, suffix)) => ret.val = "min7"

\* Witness of C6: a diminished symbol lands in the minor bucket.
C6_Witness ==
    /\ Done("_chord_quality")
    /\ call.symbol = <<"C", "d", "i", "m">>
    /\ ret.val = "min7"

\* Witness of C6: a flat root takes its 'b' out of the suffix.
C6_WitnessFlatRoot ==
    /\ Done("_chord_quality")
    /\ call.symbol = <<"C", "b", "m", "7">>
    /\ ret.val = "min7"

\* The windows of three consecutive chords that match: buckets (min7, dom7,
\* maj7), all roots present, both root motions +5 mod 12.
C7_Matches(sc) ==
    {i \in 1..(Len(sc) - 2) :
        /\ BucketOf(sc[i].symbol) = "min7"
        /\ BucketOf(sc[i + 1].symbol) = "dom7"
        /\ BucketOf(sc[i + 2].symbol) = "maj7"
        /\ \A k \in 0..2 : C1_RootLen(sc[i + k].symbol) > 0
        /\ (RootPitchClassOf(sc[i + 1].symbol)
            - RootPitchClassOf(sc[i].symbol)) % 12 = 5
        /\ (RootPitchClassOf(sc[i + 2].symbol)
            - RootPitchClassOf(sc[i + 1].symbol)) % 12 = 5}

\* C7: detect_ii_v_i returns, in window order, one event for exactly the
\* matching windows of the start-sorted chords: start of chord 1, end of
\* chord 3 (its start when it has no end), the three symbols, the root of
\* chord 3 as key guess.  Dm7@[0,2), G7@[2,4), Cmaj7@[4,6) gives exactly
\* (0, 6, [Dm7, G7, Cmaj7], C); fewer than three chords give nothing.
C7_IiVIEvents ==
    Done("detect_ii_v_i") =>
        LET sc == sorted_by_start(call.chords)
            hits == C7_Matches(sc)
            rank(i) == Cardinality({j \in hits : j <= i})
        IN  /\ ret.exc = "none"
            /\ Len(ret.val) = Cardinality(hits)
            /\ \A i \in hits :
                  LET e == ret.val[rank(i)]
                      c3 == sc[i + 2]
                  IN  /\ e.start_sec = sc[i].start_sec
                      /\ e.end_sec = IF c3.end_sec = NoEnd THEN c3.start_sec
                                     ELSE c3.end_sec
                      /\ e.chords = <<sc[i].symbol, sc[i + 1].symbol, c3.symbol>>
                      /\ e.key_guess = SubSeq(c3.symbol, 1, C1_RootLen(c3.symbol))
            /\ Len(call.chords) < 3 => ret.val = <<>>
            /\ call.chords = <<[symbol |-> Dm7, start_sec |-> 0, end_sec |-> 2],
                               [symbol |-> G7, start_sec |-> 2, end_sec |-> 4],
                               [symbol |-> Cmaj7, start_sec |-> 4, end_sec |-> 6]>>
                  => ret.val = <<[start_sec |-> 0, end_sec |-> 6,
                                  chords |-> <<Dm7, G7, Cmaj7>>,
                                  key_guess |-> <<"C">>]>>

\* Witness of C7: the stated ii-V-I in C has been detected.
C7_Witness ==
    /\ Done("detect_ii_v_i")
    /\ call.chords = <<[symbol |-> Dm7, start_sec |-> 0, end_sec |-> 2],
                       [symbol |-> G7, start_sec |-> 2, end_sec |-> 4],
                       [symbol |-> Cmaj7, start_sec |-> 4, end_sec |-> 6]>>
    /\ Len(ret.val) = 1 /\ ret.val[1].end_sec = 6

\* Witness of C7: the three chords are not consecutive in sorted order (a
\* tritone substitute stands between them), so nothing is detected.
C7_WitnessNotConsecutive ==
    /\ Done("detect_ii_v_i")
    /\ call.chords = <<[symbol |-> Dm7, start_sec |-> 0, end_sec |-> 2],
                       [symbol |-> Db7, start_sec |-> 2, end_sec |-> 4],
                       [symbol |-> G7, start_sec |-> 2, end_sec |-> 4],
                       [symbol |-> Cmaj7, start_sec |-> 4, end_sec |-> NoEnd]>>
    /\ ret.val = <<>>

\* Witness of C7: given out of order, the chords are sorted first; the last
\* chord has no end, so the event ends at its start.
C7_WitnessSortedFirst ==
    /\ Done("detect_ii_v_i")
    /\ call.chords = <<[symbol |-> Cmaj7, start_sec |-> 4, end_sec |-> NoEnd],
                       [symbol |-> G7, start_sec |-> 2, end_sec |-> 4],
                       [symbol |-> Dm7, start_sec |-> 0, end_sec |-> 2]>>
    /\ Len(ret.val) = 1 /\ ret.val[1].end_sec = 4


(***************************************************************************)
(* Claims checked under SpecLick.                                          *)
(***************************************************************************)
\* kept is the subsequence of all of exactly the elements at the positions
\* in keep, in the order of all and unmodified.
IsFilterOf(kept, all, keep) ==
    /\ Len(kept) = Cardinality(keep)
    /\ \A i \in keep : kept[Cardinality({j \in keep : j <= i})] = all[i]

\* C8: for a window [start, end) with end > start, _extract_lick returns
\* exactly the notes with start < end and start + duration > window start,
\* and exactly the chords with start < end and (end absent or end > window
\* start), in input order and unmodified; over Dm7@[0,2), G7@[2,open) the
\* window [0,2) keeps only Dm7.
C8_WindowFilter ==
    Done("_extract_lick") =>
        LET notes == call.transcription.notes
            chords == call.transcription.chords
            ws == call.window[1]
            we == call.window[2]
        IN  /\ ret.exc = "none"
            /\ IsFilterOf(ret.val.notes, notes,
                   {i \in 1..Len(notes) :
                       /\ notes[i].start_sec < we
                       /\ notes[i].start_sec + notes[i].duration_sec > ws})
            /\ IsFilterOf(ret.val.chords, chords,
                   {i \in 1..Len(chords) :
                       /\ chords[i].start_sec < we
                       /\ (chords[i].end_sec = NoEnd \/ chords[i].end_sec > ws)})
            /\ (/\ call.window = <<0, 2>>
                /\ chords = <<[symbol |-> Dm7, start_sec |-> 0, end_sec |-> 2],
                              [symbol |-> G7, start_sec |-> 2, end_sec |-> NoEnd]>>)
                  => ret.val.chords =
                        <<[symbol |-> Dm7, start_sec |-> 0, end_sec |-> 2]>>

\* Witness of C8: the window [0,2) over two notes inside it and the chords
\* Dm7@[0,2), G7@[2,open) keeps both notes and Dm7 alone.
C8_Witness ==
    /\ Done("_extract_lick")
    /\ call.window = <<0, 2>>
    /\ call.transcription.notes =
          <<[pitch_midi |-> 72, start_sec |-> 0, duration_sec |-> 1],
            [pitch_midi |-> 76, start_sec |-> 1, duration_sec |-> 2]>>
    /\ call.transcription.chords =
          <<[symbol |-> Dm7, start_sec |-> 0, end_sec |-> 2],
            [symbol |-> G7, start_sec |-> 2, end_sec |-> NoEnd]>>
    /\ ret.val.notes = call.transcription.notes
    /\ ret.val.chords = <<[symbol |-> Dm7, start_sec |-> 0, end_sec |-> 2]>>

\* Witness of C8: a note that ends at the window start and a chord that ends
\* there are dropped, the later ones kept.
C8_WitnessEndsAtStart ==
    /\ Done("_extract_lick")
    /\ call.window = <<2, 3>>
    /\ call.transcription.notes =
          <<[pitch_midi |-> 72, start_sec |-> 0, duration_sec |-> 1],
            [pitch_midi |-> 72, start_sec |-> 1, duration_sec |-> 2]>>
    /\ call.transcription.chords =
          <<[symbol |-> Dm7, start_sec |-> 1, end_sec |-> 2],
            [symbol |-> G7, start_sec |-> 2, end_sec |-> NoEnd]>>
    /\ Len(ret.val.notes) = 1 /\ ret.val.notes[1].start_sec = 1
    /\ Len(ret.val.chords) = 1 /\ ret.val.chords[1].symbol = G7

(***************************************************************************)
(* Claims checked under SpecTies.                                          *)
(***************************************************************************)
RECURSIVE SumChunks(_)
SumChunks(segs) ==
    IF segs = <<>> THEN 0
    ELSE segs[1].chunk + SumChunks(SubSeq(segs, 2, Len(segs)))

\* The measures the span [s, s + d) touches.
MeasuresTouched(s, d, dpm) ==
    {m \in 0..((s + d) \div dpm) : m * dpm < s + d /\ (m + 1) * dpm > s}

\* The segments are consecutive from s on, each inside its measure, one per
\* measure touched.
SegmentsPartition(segs, s, d, dpm) ==
    /\ Len(segs) >= 1
    /\ segs[1].mi * dpm + segs[1].off = s
    /\ \A k \in 1..Len(segs) :
          /\ segs[k].off >= 0 /\ segs[k].chunk >= 1
          /\ segs[k].off + segs[k].chunk <= dpm
    /\ \A k \in 1..(Len(segs) - 1) :
          /\ segs[k + 1].mi = segs[k].mi + 1
          /\ segs[k + 1].mi * dpm + segs[k + 1].off
                = segs[k].mi * dpm + segs[k].off + segs[k].chunk
    /\ {segs[k].mi : k \in 1..Len(segs)} = MeasuresTouched(s, d, dpm)
    /\ Len(segs) = Cardinality(MeasuresTouched(s, d, dpm))

\* First segment: no tie stop, tie start iff more follow; interior: both;
\* final: no tie start, tie stop iff a prior segment existed.
TieFlags(segs) ==
    LET n == Len(segs)
    IN  /\ segs[1].t_stop = FALSE
        /\ segs[1].t_start = (n > 1)
        /\ \A k \in 2..(n - 1) : segs[k].t_start /\ segs[k].t_stop
        /\ segs[n].t_start = FALSE
        /\ segs[n].t_stop = (n > 1)

\* C9: every quantized note (s >= 0, d >= 1) is split into consecutive
\* segments, one per measure its span touches, each inside its measure, with
\* the tie flags of first, interior and final segments as stated, and the
\* segment durations sum to d.
C9_TieSplit ==
    Done("split_note") =>
        LET dpm == call.beats * (IF call.grid = 8 THEN 2 ELSE 8)
            segs == ret.val
        IN  /\ ret.exc = "none"
            /\ SegmentsPartition(segs, call.s, call.d, dpm)
            /\ TieFlags(segs)
            /\ SumChunks(segs) = call.d
            /\ \A k \in 1..Len(segs) : segs[k].midi = call.midi

\* Witness of C9: a note over four measures of one beat has two interior
\* segments.
C9_Witness ==
    /\ Done("split_note")
    /\ call.grid = 8 /\ call.beats = 1 /\ call.s = 1 /\ call.d = 6
    /\ Len(ret.val) = 4
    /\ ret.val[2].t_start /\ ret.val[2].t_stop
    /\ ret.val[4].chunk = 1

IsOneAndAHalfMeasures(d, dpm) == 2 * d = 3 * dpm

\* C10 as stated: a note of exactly 1.5 measures, at any start offset, gives
\* exactly two tied segments whose durations sum to the quantized duration,
\* the first with tieStart only, the second with tieStop only.
C10_TwoSegmentsAnyOffset ==
    (Done("split_note")
     /\ IsOneAndAHalfMeasures(call.d, call.beats * (IF call.grid = 8 THEN 2 ELSE 8)))
    =>  /\ Len(ret.val) = 2
        /\ ret.val[1].chunk + ret.val[2].chunk = call.d
        /\ ret.val[1].t_start /\ ~ret.val[1].t_stop
        /\ ~ret.val[2].t_start /\ ret.val[2].t_stop

\* C10 as amended: such a note gives exactly two tied segments when it starts
\* in the first half of its measure (start mod measure <= half a measure) and
\* exactly three otherwise, the middle one with both flags; in both cases the
\* durations sum to the quantized duration, the first segment has tieStart
\* only and the last tieStop only.
C10_TwoOrThreeSegments ==
    (Done("split_note")
     /\ IsOneAndAHalfMeasures(call.d, call.beats * (IF call.grid = 8 THEN 2 ELSE 8)))
    =>  LET dpm == call.beats * (IF call.grid = 8 THEN 2 ELSE 8)
            segs == ret.val
            n == Len(segs)
        IN  /\ n = IF 2 * (call.s % dpm) <= dpm THEN 2 ELSE 3
            /\ SumChunks(segs) = call.d
            /\ segs[1].t_start /\ ~segs[1].t_stop
            /\ ~segs[n].t_start /\ segs[n].t_stop
            /\ n = 3 => (segs[2].t_start /\ segs[2].t_stop /\ segs[2].chunk = dpm)

\* Witness of C10: 4/4 on the sixteenth grid, a note of 48 divisions from the
\* start of the second measure splits into 32 + 16.
C10_Witness ==
    /\ Done("split_note")
    /\ call.grid = 16 /\ call.beats = 4 /\ call.s = 32 /\ call.d = 48
    /\ Len(ret.val) = 2
    /\ ret.val[1].chunk = 32 /\ ret.val[2].chunk = 16
    /\ ret.val[1].mi = 1 /\ ret.val[2].mi = 2

\* Witness of C10: the same note from offset 20 splits into 12 + 32 + 4.
C10_WitnessThree ==
    /\ Done("split_note")
    /\ call.grid = 16 /\ call.beats = 4 /\ call.s = 20 /\ call.d = 48
    /\ Len(ret.val) = 3
    /\ ret.val[1].chunk = 12 /\ ret.val[2].chunk = 32 /\ ret.val[3].chunk = 4

(***************************************************************************)
(* services/musicxml.py: generate_musicxml from quantisation to harmony    *)
(* placement and the first measure's attributes.  In this part and in the  *)
(* practice pack a time is an integer number of milliseconds, so that the  *)
(* thresholds of the pre-clean (60, 20 and 40 ms) are integers too.        *)
(* A time signature is the pair of integers its text "N/D" parses to.      *)
(***************************************************************************)
\* One minute in milliseconds: beat_dur = 60.0 / bpm seconds.
MsPerMinute == 60000

Max(a, b) == IF a >= b THEN a ELSE b

\* max() of a non-empty set of integers.
MaxOf(S) == CHOOSE x \in S : \A y \in S : y <= x

\* round(a / b) of Python for b > 0: to the nearest integer, a half to the
\* even neighbour.
RoundHalfEven(a, b) ==
    LET q == a \div b
        r == a % b
    IN  IF 2 * r < b THEN q
        ELSE IF 2 * r > b THEN q + 1
        ELSE IF q % 2 = 0 THEN q ELSE q + 1

\* round(t_sec / beat_dur * divs_per_beat) for a time of t milliseconds.
ToDivisions(t, bpm, divs_per_beat) ==
    RoundHalfEven(t * bpm * divs_per_beat, MsPerMinute)

\* sorted(..., key=(x[0], x[2])) as a stable insertion.
InsertByOffsetPitch(s, x) ==
    LET k == Cardinality({i \in 1..Len(s) :
                 \/ s[i].s < x.s
                 \/ s[i].s = x.s /\ s[i].midi <= x.midi})
    IN  SubSeq(s, 1, k) \o <<x>> \o SubSeq(s, k + 1, Len(s))

RECURSIVE quantise(_, _, _)
quantise(notes, bpm, divs_per_beat) ==
    IF notes = <<>> THEN <<>>
    ELSE LET n == notes[Len(notes)]
             s == Max(0, ToDivisions(n.start_sec, bpm, divs_per_beat))
             d == Max(1, ToDivisions(n.duration_sec, bpm, divs_per_beat))
         IN  InsertByOffsetPitch(
                 quantise(SubSeq(notes, 1, Len(notes) - 1), bpm, divs_per_beat),
                 [s |-> s, d |-> d, midi |-> n.pitch_midi])

\* num_measures = max(1, ceil(max_div / divs_per_measure)); every chord,
\* also the "N" chord, counts with its quantised start plus one division.
num_measures(note_grid, chords, bpm, divs_per_beat, divs_per_measure) ==
    LET note_div == IF note_grid = <<>> THEN 0
                    ELSE MaxOf({note_grid[i].s + note_grid[i].d :
                                   i \in 1..Len(note_grid)})
        max_div == IF chords = <<>> THEN note_div
                   ELSE Max(note_div,
                            MaxOf({Max(0, ToDivisions(chords[i].start_sec, bpm,
                                                      divs_per_beat)) :
                                      i \in 1..Len(chords)}) + 1)
    IN  Max(1, -((-max_div) \div divs_per_measure))

_KLANGIO_QUALITY ==
    (<<"m", "a", "j">> :> <<>>) @@
    (<<"m", "i", "n">> :> <<"m">>) @@
    (<<"d", "i", "m">> :> <<"d", "i", "m">>) @@
    (<<"a", "u", "g">> :> <<"a", "u", "g">>) @@
    (<<"d", "o", "m">> :> <<"7">>) @@
    (<<"h", "d", "i", "m", "7">> :> <<"m", "7", "b", "5">>) @@
    (<<"m", "i", "n", "7">> :> <<"m", "7">>) @@
    (<<"m", "a", "j", "7">> :> <<"m", "a", "j", "7">>) @@
    (<<"m", "i", "n", "m", "a", "j", "7">> :> <<"m", "M", "a", "j", "7">>) @@
    (<<"d", "i", "m", "7">> :> <<"d", "i", "m", "7">>) @@
    (<<"a", "u", "g", "7">> :> <<"a", "u", "g", "7">>) @@
    (<<"s", "u", "s", "4">> :> <<"s", "u", "s", "4">>) @@
    (<<"s", "u", "s", "2">> :> <<"s", "u", "s", "2">>) @@
    (<<"m", "i", "n", "6">> :> <<"m", "6">>) @@
    (<<"m", "a", "j", "6">> :> <<"6">>) @@
    (<<"9">> :> <<"9">>) @@
    (<<"m", "i", "n", "9">> :> <<"m", "9">>) @@
    (<<"m", "a", "j", "9">> :> <<"m", "a", "j", "9">>) @@
    (<<"1", "1">> :> <<"1", "1">>) @@
    (<<"m", "i", "n", "1", "1">> :> <<"m", "1", "1">>) @@
    (<<"1", "3">> :> <<"1", "3">>)

_ENHARMONIC_FLAT ==
    (<<"C", "#">> :> <<"D", "b">>) @@ (<<"D", "#">> :> <<"E", "b">>) @@
    (<<"F", "#">> :> <<"G", "b">>) @@ (<<"G", "#">> :> <<"A", "b">>) @@
    (<<"A", "#">> :> <<"B", "b">>)

\* Index of the first ":" of a symbol, 0 when it has none.
FirstColon(symbol) ==
    IF \E i \in 1..Len(symbol) : symbol[i] = ":"
    THEN CHOOSE i \in 1..Len(symbol) :
             symbol[i] = ":" /\ \A j \in 1..(i - 1) : symbol[j] # ":"
    ELSE 0

_normalize_chord_symbol(symbol) ==
    LET k == FirstColon(symbol)
        quality == SubSeq(symbol, k + 1, Len(symbol))
        joined == IF k = 0 THEN symbol
                  ELSE SubSeq(symbol, 1, k - 1) \o
                       (IF quality \in DOMAIN _KLANGIO_QUALITY
                        THEN _KLANGIO_QUALITY[quality] ELSE quality)
        sharp == SubSeq(joined, 1, 2)
    IN  IF Len(joined) >= 2 /\ sharp \in DOMAIN _ENHARMONIC_FLAT
        THEN _ENHARMONIC_FLAT[sharp] \o StrFrom(joined, 2)
        ELSE joined

\* chord_spans: (cs, ce, normalised symbol) of every chord but the "N"
\* chord.  Both times are multiplied by bpm, which makes one measure
\* beats_per_measure * MsPerMinute long whatever the tempo.
RECURSIVE chord_spans_keep_N(_, _, _, _)
\* Mutant: the "N" chord is not skipped.
chord_spans_keep_N(chords, ci, bpm, beats_per_measure) ==
    IF ci >= Len(chords) THEN <<>>
    ELSE LET c == chords[ci + 1]
             cs == c.start_sec * bpm
             ce == IF c.end_sec # NoEnd THEN c.end_sec * bpm
                   ELSE IF ci + 1 < Len(chords)
                        THEN chords[ci + 2].start_sec * bpm
                        ELSE cs + beats_per_measure * MsPerMinute
         IN  << [cs |-> cs, ce |-> ce,
                 sym |-> _normalize_chord_symbol(c.symbol)] >>
             \o chord_spans_keep_N(chords, ci + 1, bpm, beats_per_measure)

RECURSIVE chord_spans(_, _, _, _)
chord_spans(chords, ci, bpm, beats_per_measure) ==
    IF ci >= Len(chords) THEN <<>>
    ELSE LET c == chords[ci + 1]
             cs == c.start_sec * bpm
             ce == IF c.end_sec # NoEnd THEN c.end_sec * bpm
                   ELSE IF ci + 1 < Len(chords)
                        THEN chords[ci + 2].start_sec * bpm
                        ELSE cs + beats_per_measure * MsPerMinute
             rest == chord_spans(chords, ci + 1, bpm, beats_per_measure)
         IN  IF c.symbol = NoChordSymbol THEN rest
             ELSE << [cs |-> cs, ce |-> ce,
                      sym |-> _normalize_chord_symbol(c.symbol)] >> \o rest

\* best_sym = None, best_overlap = 0.0 before the scan of a measure.
NoBest == [found |-> FALSE, overlap |-> 0, sym |-> <<>>]

\* Mutant: a later chord replaces the best one on an equal overlap.
RECURSIVE BestScanLastWins(_, _, _, _, _)
BestScanLastWins(spans, i, ms, me, best) ==
    IF i > Len(spans) THEN best
    ELSE LET overlap == Max(0, Min(spans[i].ce, me) - Max(spans[i].cs, ms))
         IN  BestScanLastWins(spans, i + 1, ms, me,
                 IF overlap >= best.overlap /\ overlap > 0
                 THEN [found |-> TRUE, overlap |-> overlap, sym |-> spans[i].sym]
                 ELSE best)

\* The scan of chord_spans for one measure [ms, me).
RECURSIVE BestScan(_, _, _, _, _)
BestScan(spans, i, ms, me, best) ==
    IF i > Len(spans) THEN best
    ELSE LET overlap == Max(0, Min(spans[i].ce, me) - Max(spans[i].cs, ms))
         IN  BestScan(spans, i + 1, ms, me,
                 IF overlap > best.overlap
                 THEN [found |-> TRUE, overlap |-> overlap, sym |-> spans[i].sym]
                 ELSE best)

best_chord_last_wins(spans, ms, me) == BestScanLastWins(spans, 1, ms, me, NoBest)

best_chord(spans, ms, me) == BestScan(spans, 1, ms, me, NoBest)

\* chords_by_m: the dict from a measure index to the symbol placed at its
\* offset 0; a measure without a best chord is no key of it.
chords_by_m(spans, n_measures, beats_per_measure) ==
    LET measure_sec == beats_per_measure * MsPerMinute
        best(mi) == best_chord(spans, mi * measure_sec,
                               mi * measure_sec + measure_sec)
    IN  [mi \in {m \in 0..(n_measures - 1) : best(m).found} |-> best(mi).sym]

\* Python's None for key_sig (a key name is never the one-token text below).
NoKeySig == <<"None">>

\* The names that services/theory.py binds at module level.
theory_names ==
    {"re", "PITCH_CLASS", "SEMITONE_TO_NAME", "_ROOT_RE", "parse_key",
     "semitone_interval", "parse_chord_root", "transpose_chord_symbol"}

\* from services.theory import <name>
import_from_theory(name) ==
    IF name \in theory_names THEN Return(name) ELSE Raise("ImportError")

\* The <attributes> of the first measure; the import of key_to_fifths runs
\* only when a key signature is given.
first_measure_attributes(divs_per_beat, key_sig, beats_per_measure, beat_type) ==
    LET imported == import_from_theory("key_to_fifths")
        key == IF key_sig = NoKeySig THEN Return([present |-> FALSE])
               ELSE IF imported.exc # "none" THEN imported
               ELSE Return([present |-> TRUE,
                            fifths |-> [callee |-> imported.val, arg |-> key_sig]])
    IN  IF key.exc # "none" THEN key
        ELSE Return([divisions |-> divs_per_beat, key |-> key.val,
                     beats |-> beats_per_measure, beat_type |-> beat_type,
                     staves |-> 2])

(***************************************************************************)
(* services/musicxml.py: the duration catalog and beaming.                 *)
(***************************************************************************)
\* _TYPE_MAP_16: duration in divisions -> (type name, dotted).
_TYPE_MAP_16 ==
    (1 :> <<"32nd", FALSE>>) @@ (2 :> <<"16th", FALSE>>) @@
    (3 :> <<"16th", TRUE>>) @@ (4 :> <<"eighth", FALSE>>) @@
    (6 :> <<"eighth", TRUE>>) @@ (8 :> <<"quarter", FALSE>>) @@
    (12 :> <<"quarter", TRUE>>) @@ (16 :> <<"half", FALSE>>) @@
    (24 :> <<"half", TRUE>>) @@ (32 :> <<"whole", FALSE>>)

\* _TYPE_MAP_8
_TYPE_MAP_8 ==
    (1 :> <<"eighth", FALSE>>) @@ (2 :> <<"quarter", FALSE>>) @@
    (3 :> <<"quarter", TRUE>>) @@ (4 :> <<"half", FALSE>>) @@
    (6 :> <<"half", TRUE>>) @@ (8 :> <<"whole", FALSE>>)

\* _get_type_map(grid)[0]
_get_type_map(grid) == IF grid = 8 THEN _TYPE_MAP_8 ELSE _TYPE_MAP_16

\* _get_type_map(grid)[1]: the keys of the type map (the list is sorted
\* ascending, which Nearest accounts for).
_VALID_DURATIONS(grid) == DOMAIN _get_type_map(grid)

Abs(x) == IF x < 0 THEN 0 - x ELSE x

\* min(valid, key=lambda d: abs(d - div)): of the values at the least
\* distance, the first of the ascending list, that is the smallest.
Nearest(div, valid) ==
    CHOOSE d \in valid :
        \A e \in valid :
            \/ Abs(d - div) < Abs(e - div)
            \/ Abs(d - div) = Abs(e - div) /\ d <= e

_snap_duration(div, valid) == IF div <= 0 THEN 1 ELSE Nearest(div, valid)

_type_for_duration(div, type_map, valid) ==
    IF div \in DOMAIN type_map THEN type_map[div]
    ELSE type_map[Nearest(div, valid)]

_beamable == {"eighth", "16th", "32nd"}

_sub_beam == {"16th", "32nd"}

\* The annotation of the voice events: ann[i] for the 1-based index i.
annotate(voice_events, divs_per_beat, type_map, valid) ==
    [i \in 1..Len(voice_events) |->
        LET off   == voice_events[i][1]
            dur   == voice_events[i][2]
            tname == _type_for_duration(dur, type_map, valid)[1]
        IN  [off |-> off, dur |-> dur, type |-> tname,
             beat |-> off \div divs_per_beat,
             beamable |-> tname \in _beamable,
             sub |-> tname \in _sub_beam]]

\* Mutant: a run of one event is a group too.
CloseGroup_singles(groups, cur) ==
    IF Len(cur) >= 1 THEN Append(groups, cur) ELSE groups

\* if len(cur) >= 2: groups.append(cur)
CloseGroup(groups, cur) == IF Len(cur) >= 2 THEN Append(groups, cur) ELSE groups

\* The beam-1 loop `for i, ev in enumerate(ann)` from the index i on, and
\* the closing of the last group after it.
RECURSIVE BeamGroups(_, _, _, _)
BeamGroups(ann, i, cur, groups) ==
    IF i > Len(ann) THEN CloseGroup(groups, cur)
    ELSE LET ev == ann[i]
         IN  IF ev.beamable
             THEN IF cur # <<>>
                  THEN LET prev == ann[cur[Len(cur)]]
                       IN  IF prev.beat = ev.beat
                              /\ prev.off + prev.dur >= ev.off
                           THEN BeamGroups(ann, i + 1, Append(cur, i), groups)
                           ELSE BeamGroups(ann, i + 1, <<i>>,
                                           CloseGroup(groups, cur))
                  ELSE BeamGroups(ann, i + 1, <<i>>, groups)
             ELSE BeamGroups(ann, i + 1, <<>>, CloseGroup(groups, cur))

\* result[off] = v
DictPut(result, off, v) ==
    [o \in DOMAIN result \cup {off} |-> IF o = off THEN v ELSE result[o]]

\* Mutant: every member after the first ends the beam.
BeamValue_no_continue(si, n) == IF si = 1 THEN "begin" ELSE "end"

\* begin / continue / end for the member si of n (1-based).
BeamValue(si, n) ==
    IF si = 1 THEN "begin" ELSE IF si = n THEN "end" ELSE "continue"

\* for gi, idx in enumerate(group): result[off] = [(1, ...)]
RECURSIVE Beam1(_, _, _, _)
Beam1(ann, group, gi, result) ==
    IF gi > Len(group) THEN result
    ELSE Beam1(ann, group, gi + 1,
               DictPut(result, ann[group[gi]].off,
                       << <<1, BeamValue(gi, Len(group))>> >>))

\* The sub-runs of 16th/32nd members of a group, as lists of positions in
\* the group.
RECURSIVE SubRuns(_, _, _, _, _)
SubRuns(ann, group, gi, cur_sub, sub_runs) ==
    IF gi > Len(group)
    THEN IF cur_sub # <<>> THEN Append(sub_runs, cur_sub) ELSE sub_runs
    ELSE IF ann[group[gi]].sub
    THEN SubRuns(ann, group, gi + 1, Append(cur_sub, gi), sub_runs)
    ELSE SubRuns(ann, group, gi + 1, <<>>,
                 IF cur_sub # <<>> THEN Append(sub_runs, cur_sub)
                 ELSE sub_runs)

\* for si, gi in enumerate(run): result[off].append((2, ...))
RECURSIVE Beam2Run(_, _, _, _, _)
Beam2Run(ann, group, run, si, result) ==
    IF si > Len(run) THEN result
    ELSE LET off == ann[group[run[si]]].off
         IN  Beam2Run(ann, group, run, si + 1,
                      DictPut(result, off,
                              Append(result[off],
                                     <<2, BeamValue(si, Len(run))>>)))

\* for run in sub_runs: a run of two or more, or a hook.
RECURSIVE Beam2(_, _, _, _, _)
Beam2(ann, group, sub_runs, k, result) ==
    IF k > Len(sub_runs) THEN result
    ELSE LET run == sub_runs[k]
         IN  IF Len(run) >= 2
             THEN Beam2(ann, group, sub_runs, k + 1,
                        Beam2Run(ann, group, run, 1, result))
             ELSE LET gi  == run[1]
                      off == ann[group[gi]].off
                  IN  Beam2(ann, group, sub_runs, k + 1,
                            DictPut(result, off,
                                    Append(result[off],
                                           <<2, IF gi = 1 THEN "forward-hook"
                                                ELSE "backward-hook">>)))

\* for group in groups
RECURSIVE BeamAll(_, _, _, _)
BeamAll(ann, groups, g, result) ==
    IF g > Len(groups) THEN result
    ELSE LET group == groups[g]
             r1    == Beam1(ann, group, 1, result)
         IN  BeamAll(ann, groups, g + 1,
                     Beam2(ann, group, SubRuns(ann, group, 1, <<>>, <<>>),
                           1, r1))

\* _compute_beaming: the dict offset -> [(beam number, beam value), ...].
_compute_beaming(voice_events, divs_per_beat, type_map, valid) ==
    LET ann == annotate(voice_events, divs_per_beat, type_map, valid)
    IN  BeamAll(ann, BeamGroups(ann, 1, <<>>, <<>>), 1, <<>>)

(***************************************************************************)
(* services/musicxml.py: rest filling.  _emit_rests is a loop: frame holds *)
(* its `remaining` and the rest elements appended to the measure so far.   *)
(***************************************************************************)
\* Mutant: the first catalog value that fits is taken, scanning upwards.
best_rest_smallest(remaining, valid) ==
    IF \E d \in valid : d <= remaining
    THEN CHOOSE d \in valid : d <= remaining /\ \A e \in valid : d <= e
    ELSE 1

\* best = 1; for d in reversed(valid): if d <= remaining: best = d; break
best_rest(remaining, valid) ==
    IF \E d \in valid : d <= remaining
    THEN CHOOSE d \in valid :
             d <= remaining /\ \A e \in valid : e <= remaining => e <= d
    ELSE 1

\* The rest element of one iteration: duration, type name, dot.
rest_element(best, type_map, valid) ==
    LET t == _type_for_duration(best, type_map, valid)
    IN  [kind |-> "rest", duration |-> best, type |-> t[1], dot |-> t[2]]

\* The loop of _emit_rests run to its end, as the list of rests it appends.
RECURSIVE _emit_rests(_, _, _)
_emit_rests(dur_div, type_map, valid) ==
    IF dur_div <= 0 THEN <<>>
    ELSE LET best == best_rest(dur_div, valid)
         IN  <<rest_element(best, type_map, valid)>> \o
             _emit_rests(dur_div - best, type_map, valid)

(***************************************************************************)
(* services/musicxml.py: the elements of a measure.  A measure is the list *)
(* of its harmony, note and rest elements in document order; a harmony     *)
(* element is identified by the symbol it is built from.                   *)
(***************************************************************************)
\* _PITCH_MAP: pitch class -> (step, alter), from index 1.
_PITCH_MAP ==
    << <<"C", 0>>, <<"D", -1>>, <<"D", 0>>, <<"E", -1>>, <<"E", 0>>,
       <<"F", 0>>, <<"F", 1>>, <<"G", 0>>, <<"A", -1>>, <<"A", 0>>,
       <<"B", -1>>, <<"B", 0>> >>

_midi_to_pitch(midi) ==
    [step |-> _PITCH_MAP[(midi % 12) + 1][1],
     alter |-> _PITCH_MAP[(midi % 12) + 1][2],
     octave |-> (midi \div 12) - 1]

_emit_harmony(symbol) == [kind |-> "harmony", symbol |-> symbol]

_emit_note(midi, dur_div, type_map, valid, is_chord, tie_start, tie_stop, beams, staff) ==
    LET t == _type_for_duration(dur_div, type_map, valid)
    IN  [kind |-> "note", chord |-> is_chord, midi |-> midi,
         pitch |-> _midi_to_pitch(midi), duration |-> dur_div,
         staff |-> staff, tie_start |-> tie_start, tie_stop |-> tie_stop,
         type |-> t[1], dot |-> t[2], beams |-> beams]

MinOf(S) == CHOOSE x \in S : \A y \in S : x <= y

\* for co in chord_offsets, the sorted chord offsets inside the gap.
RECURSIVE RestsWithChordsLoop(_, _, _, _, _, _, _)
RestsWithChordsLoop(chord_offsets, cursor, end, chord_lookup, type_map, valid, out) ==
    IF chord_offsets = {}
    THEN IF cursor < end
         THEN out \o _emit_rests(end - cursor, type_map, valid)
         ELSE out
    ELSE LET co == MinOf(chord_offsets)
             rests == IF co > cursor
                      THEN _emit_rests(co - cursor, type_map, valid)
                      ELSE <<>>
         IN  RestsWithChordsLoop(chord_offsets \ {co}, co, end, chord_lookup,
                 type_map, valid,
                 out \o rests \o <<_emit_harmony(chord_lookup[co])>>)

_emit_rests_with_chords(start, duration, chord_lookup, type_map, valid) ==
    LET end == start + duration
    IN  RestsWithChordsLoop({o \in DOMAIN chord_lookup : start < o /\ o < end},
                            start, end, chord_lookup, type_map, valid, <<>>)

\* notes_by_m: the segments of all the notes, in the order they are
\* appended (the notes in note_grid order, each note's segments in order).
RECURSIVE all_segments(_, _)
all_segments(note_grid, divs_per_measure) ==
    IF note_grid = <<>> THEN <<>>
    ELSE split_note(note_grid[1].s, note_grid[1].d, note_grid[1].midi,
                    divs_per_measure)
         \o all_segments(Tail(note_grid), divs_per_measure)

\* notes_by_m.get(mi, [])
notes_by_m_get(segments, mi) ==
    LET in_measure(g) == g.mi = mi
    IN  SelectSeq(segments, in_measure)

\* by_offset: offset -> the segments at it, in m_notes order.
by_offset_of(m_notes) ==
    [off \in {m_notes[i].off : i \in 1..Len(m_notes)} |->
        LET at_off(g) == g.off = off
        IN  SelectSeq(m_notes, at_off)]

\* Mutant: a duration is cut at the barline and not snapped to the catalog.
clamped_duration_unsnapped(dur, off, divs_per_measure, valid) ==
    Min(dur, divs_per_measure - off)

\* clamped = min(dur, space); snapped; cut back to the space when the snap
\* went past the barline.
clamped_duration(dur, off, divs_per_measure, valid) ==
    LET clamped == _snap_duration(Min(dur, divs_per_measure - off), valid)
    IN  IF clamped > divs_per_measure - off
        THEN Max(1, divs_per_measure - off)
        ELSE clamped

\* voice_events: for the sorted offsets, from the least of `offsets` on.
RECURSIVE voice_events_of(_, _, _, _)
voice_events_of(offsets, by_offset, divs_per_measure, valid) ==
    IF offsets = {} THEN <<>>
    ELSE LET v_off == MinOf(offsets)
         IN  << <<v_off, clamped_duration(by_offset[v_off][1].chunk, v_off,
                                          divs_per_measure, valid)>> >>
             \o voice_events_of(offsets \ {v_off}, by_offset,
                                divs_per_measure, valid)

\* beam_map.get(off)
beams_get(beam_map, off) ==
    IF off \in DOMAIN beam_map THEN beam_map[off] ELSE <<>>

\* for i, (dur, midi, t_start, t_stop) in enumerate(nlist): the notes of one
\* offset, the first without and the others with the chord marker.
notes_at(nlist, off, beams, divs_per_measure, type_map, valid) ==
    [i \in 1..Len(nlist) |->
        _emit_note(nlist[i].midi,
                   clamped_duration(nlist[i].chunk, off, divs_per_measure,
                                    valid),
                   type_map, valid, i > 1, nlist[i].t_start, nlist[i].t_stop,
                   beams, IF nlist[i].midi >= 60 THEN 1 ELSE 2)]

\* for off in event_offsets, from the least of `event_offsets` on: the
\* cursor and the elements emitted when the loop ends.
RECURSIVE CursorLoop(_, _, _, _, _, _, _, _, _)
CursorLoop(event_offsets, cursor, by_offset, m_chords, beam_map, divs_per_measure, type_map, valid, out) ==
    IF event_offsets = {} THEN [cursor |-> cursor, out |-> out]
    ELSE LET off == MinOf(event_offsets)
             rest == event_offsets \ {off}
         IN  IF off < cursor
             THEN CursorLoop(rest, cursor, by_offset, m_chords, beam_map,
                             divs_per_measure, type_map, valid, out)
             ELSE LET gap == IF off > cursor
                             THEN _emit_rests_with_chords(cursor, off - cursor,
                                      m_chords, type_map, valid)
                             ELSE <<>>
                      harmony == IF off \in DOMAIN m_chords
                                 THEN <<_emit_harmony(m_chords[off])>>
                                 ELSE <<>>
                      notes == IF off \in DOMAIN by_offset
                               THEN notes_at(by_offset[off], off,
                                             beams_get(beam_map, off),
                                             divs_per_measure, type_map, valid)
                               ELSE <<>>
                      first_dur == _snap_duration(
                                       Min(by_offset[off][1].chunk,
                                           divs_per_measure - off), valid)
                  IN  CursorLoop(rest,
                                 IF off \in DOMAIN by_offset
                                 THEN Min(off + first_dur, divs_per_measure)
                                 ELSE off,
                                 by_offset, m_chords, beam_map,
                                 divs_per_measure, type_map, valid,
                                 out \o gap \o harmony \o notes)

\* The body of `for mi in range(num_measures)` after the attributes: the
\* elements of the measure with the notes m_notes and the chords m_chords.
render_measure(m_notes, m_chords, divs_per_beat, divs_per_measure, type_map, valid) ==
    LET by_offset == by_offset_of(m_notes)
        beam_map == _compute_beaming(
                        voice_events_of(DOMAIN by_offset, by_offset,
                                        divs_per_measure, valid),
                        divs_per_beat, type_map, valid)
        loop == CursorLoop(DOMAIN by_offset \cup DOMAIN m_chords, 0,
                           by_offset, m_chords, beam_map, divs_per_measure,
                           type_map, valid, <<>>)
        cursor == loop.cursor
    IN  IF cursor < divs_per_measure
        THEN loop.out
             \o (IF cursor \in DOMAIN m_chords /\ cursor \notin DOMAIN by_offset
                 THEN <<_emit_harmony(m_chords[cursor])>>
                 ELSE <<>>)
             \o _emit_rests_with_chords(cursor, divs_per_measure - cursor,
                                        m_chords, type_map, valid)
        ELSE loop.out

\* chords_by_m.get(mi, {}): the placed symbol is at offset 0.
chords_by_m_get(by_m, mi) ==
    IF mi \in DOMAIN by_m THEN (0 :> by_m[mi]) ELSE <<>>

\* generate_musicxml: the quantised notes, the measure count, the chord of
\* every measure, the attributes of measure 1 and the elements of every
\* measure (measures[m] for the measure number m, from 1).
generate_musicxml(notes, chords, bpm, time_signature, grid, key_sig) ==
    LET divs_per_beat == GRID_DIVISIONS_get(grid)
        beats_per_measure == time_signature[1]
        beat_type == time_signature[2]
        divs_per_measure == beats_per_measure * divs_per_beat
        note_grid == quantise(notes, bpm, divs_per_beat)
        n_measures == num_measures(note_grid, chords, bpm, divs_per_beat,
                                   divs_per_measure)
        spans == chord_spans(chords, 0, bpm, beats_per_measure)
        attrs == first_measure_attributes(divs_per_beat, key_sig,
                                          beats_per_measure, beat_type)
        by_m == chords_by_m(spans, n_measures, beats_per_measure)
        segments == all_segments(note_grid, divs_per_measure)
    IN  IF attrs.exc # "none" THEN attrs
        ELSE Return([note_grid |-> note_grid,
                     num_measures |-> n_measures,
                     chords_by_m |-> by_m,
                     attributes |-> attrs.val,
                     measures |->
                        [m \in 1..n_measures |->
                            render_measure(notes_by_m_get(segments, m - 1),
                                           chords_by_m_get(by_m, m - 1),
                                           divs_per_beat, divs_per_measure,
                                           _get_type_map(grid),
                                           _VALID_DURATIONS(grid))]])

(***************************************************************************)
(* Specification SpecHarmony: calls of generate_musicxml without a key     *)
(* signature, at 60 and 120 bpm in 3/4 and 4/4, so that a measure lasts    *)
(* 1500, 2000, 3000 or 4000 ms.                                            *)
(***************************************************************************)
MaxHarmonyChords == 2

\* A colon-style symbol with a sharp root: it is placed as "Dbm".
CsharpMin == <<"C", "#", ":", "m", "i", "n">>

\* Chords that begin at 0, 1000 or 2000 ms, open-ended or 2000 ms long:
\* equal overlaps, overlaps across a barline and measures left of a chord.
HarmonyChordEvents ==
    {c \in ChordEvents({Dm7, CsharpMin, NoChordSymbol},
                       {0, 1000, 2000}, {2000, 3000, 4000}) :
        <<c.start_sec, c.end_sec>> \in
            {<<0, NoEnd>>, <<0, 2000>>, <<1000, 3000>>,
             <<2000, 4000>>, <<2000, NoEnd>>}}

\* No note, or one that ends at 6500 ms, measures after the last chord.
HarmonyNoteLists ==
    { <<>>, << [pitch_midi |-> 60, start_sec |-> 4500, duration_sec |-> 2000] >> }

Tempos == {60, 120}

TimeSignatures == {<<3, 4>>, <<4, 4>>}

InitHarmony ==
    /\ \E k \in 0..MaxHarmonyChords :
          call \in [op : {"generate_musicxml"}, notes : HarmonyNoteLists,
                    chords : [1..k -> HarmonyChordEvents], bpm : Tempos,
                    time_signature : TimeSignatures, grid : Grids,
                    key_sig : {NoKeySig}]
    /\ frame = NoFrame /\ ret = NoResult /\ pc = "call"
    /\ store = NoStore

GenerateMusicXml ==
    /\ pc = "call" /\ call.op = "generate_musicxml"
    /\ ret' = generate_musicxml(call.notes, call.chords, call.bpm,
                                call.time_signature, call.grid, call.key_sig)
    /\ pc' = "done"
    /\ UNCHANGED <<call, frame, store>>

NextHarmony == GenerateMusicXml

SpecHarmony == InitHarmony /\ [][NextHarmony]_vars

(***************************************************************************)
(* Specification SpecAttributes: calls of generate_musicxml with and       *)
(* without a key signature, the key name being a name of the enharmonic   *)
(* table.                                                                  *)
(***************************************************************************)
InitAttributes ==
    /\ call \in [op : {"generate_musicxml"}, notes : HarmonyNoteLists,
                 chords : {<<>>, << [symbol |-> Dm7, start_sec |-> 0,
                                     end_sec |-> NoEnd] >>},
                 bpm : Tempos, time_signature : TimeSignatures, grid : Grids,
                 key_sig : KeyNames \cup {NoKeySig}]
    /\ frame = NoFrame /\ ret = NoResult /\ pc = "call"
    /\ store = NoStore

NextAttributes == GenerateMusicXml

SpecAttributes == InitAttributes /\ [][NextAttributes]_vars

(***************************************************************************)
(* Claims about harmony placement (checked under SpecHarmony).             *)
(***************************************************************************)
\* The end of chord i as the placement sees it: its explicit end, else the
\* start of the next chord of the list, else one measure after its start.
\* Like every time below it is in milliseconds times bpm, a unit in which a
\* measure is beats * MsPerMinute long at every tempo.
EffectiveEnd(i) ==
    LET c == call.chords[i]
    IN  IF c.end_sec # NoEnd THEN c.end_sec * call.bpm
        ELSE IF i < Len(call.chords) THEN call.chords[i + 1].start_sec * call.bpm
        ELSE c.start_sec * call.bpm + call.time_signature[1] * MsPerMinute

\* The time chord i and measure mi have in common.
OverlapWith(i, mi) ==
    LET len == call.time_signature[1] * MsPerMinute
        lo == IF call.chords[i].start_sec * call.bpm > mi * len
              THEN call.chords[i].start_sec * call.bpm ELSE mi * len
        hi == IF EffectiveEnd(i) < (mi + 1) * len
              THEN EffectiveEnd(i) ELSE (mi + 1) * len
    IN  IF hi > lo THEN hi - lo ELSE 0

\* Chord i is the first of the chords `among` with the greatest overlap with
\* measure mi.
FirstGreatest(i, mi, among) ==
    /\ i \in among
    /\ \A j \in among : OverlapWith(j, mi) <= OverlapWith(i, mi)
    /\ \A j \in among : j < i => OverlapWith(j, mi) < OverlapWith(i, mi)

AllChords == 1..Len(call.chords)

PlacedChords == {i \in AllChords : call.chords[i].symbol # NoChordSymbol}

C11_WitnessNoChords ==
    /\ Done("generate_musicxml")
    /\ call.chords = <<>> /\ call.notes = <<>>
    /\ ret.val.num_measures = 1 /\ DOMAIN ret.val.chords_by_m = {}

\* C12 as stated: the chord placed in a measure is, of all the chords, the
\* first in input order among those with the greatest overlap, and no chord
\* is placed when that overlap is zero.
C12_GreatestOverlapOfAll ==
    Done("generate_musicxml") =>
        \A mi \in 0..(ret.val.num_measures - 1) :
            \/ /\ mi \notin DOMAIN ret.val.chords_by_m
               /\ \A i \in AllChords : OverlapWith(i, mi) = 0
            \/ /\ mi \in DOMAIN ret.val.chords_by_m
               /\ \E i \in AllChords :
                     /\ FirstGreatest(i, mi, AllChords)
                     /\ OverlapWith(i, mi) > 0
                     /\ ret.val.chords_by_m[mi] =
                            _normalize_chord_symbol(call.chords[i].symbol)

\* C12 as amended: the same, among the chords whose symbol is not "N"; an
\* "N" chord is never placed and only ends an open-ended chord before it.
C12_GreatestOverlapNotN ==
    Done("generate_musicxml") =>
        \A mi \in 0..(ret.val.num_measures - 1) :
            \/ /\ mi \notin DOMAIN ret.val.chords_by_m
               /\ \A i \in PlacedChords : OverlapWith(i, mi) = 0
            \/ /\ mi \in DOMAIN ret.val.chords_by_m
               /\ \E i \in PlacedChords :
                     /\ FirstGreatest(i, mi, PlacedChords)
                     /\ OverlapWith(i, mi) > 0
                     /\ ret.val.chords_by_m[mi] =
                            _normalize_chord_symbol(call.chords[i].symbol)

\* Witness of C12: two chords share the 4/4 measure at 60 bpm half and half,
\* and the first of the list is placed.
C12_Witness ==
    /\ Done("generate_musicxml")
    /\ call.bpm = 60 /\ call.time_signature = <<4, 4>>
    /\ call.chords =
           << [symbol |-> CsharpMin, start_sec |-> 0, end_sec |-> 2000],
              [symbol |-> Dm7, start_sec |-> 2000, end_sec |-> 4000] >>
    /\ ret.val.chords_by_m[0] = <<"D", "b", "m">>

\* Witness of C12, the open end: in 3/4 at 120 bpm the open-ended chord ends
\* where the "N" chord begins, 500 ms into the second measure, and is placed
\* in both measures.
C12_WitnessOpenEnd ==
    /\ Done("generate_musicxml")
    /\ call.bpm = 120 /\ call.time_signature = <<3, 4>>
    /\ call.chords =
           << [symbol |-> Dm7, start_sec |-> 0, end_sec |-> NoEnd],
              [symbol |-> NoChordSymbol, start_sec |-> 2000, end_sec |-> NoEnd] >>
    /\ call.notes # <<>>
    /\ ret.val.num_measures = 5
    /\ ret.val.chords_by_m = (0 :> Dm7) @@ (1 :> Dm7)

(***************************************************************************)
(* Claim about the key signature (checked under SpecAttributes).           *)
(***************************************************************************)
\* The circle of fifths: the number of sharps (positive) or flats (negative)
\* of the major key of each name.
C13_Fifths ==
    (<<"C">> :> 0) @@ (<<"G">> :> 1) @@ (<<"D">> :> 2) @@ (<<"A">> :> 3) @@
    (<<"E">> :> 4) @@ (<<"B">> :> 5) @@ (<<"F", "#">> :> 6) @@
    (<<"C", "#">> :> 7) @@ (<<"F">> :> -1) @@ (<<"B", "b">> :> -2) @@
    (<<"E", "b">> :> -3) @@ (<<"A", "b">> :> -4) @@ (<<"D", "b">> :> -5) @@
    (<<"G", "b">> :> -6) @@ (<<"C", "b">> :> -7)

\* C13: with a key-signature name rendering completes and the attributes of
\* the first measure carry a key whose fifths value is the one the fixed
\* mapping gives the name; without a name rendering completes with no key.
C13_KeySignature ==
    Done("generate_musicxml") =>
        /\ ret.exc = "none"
        /\ call.key_sig = NoKeySig => ~ret.val.attributes.key.present
        /\ call.key_sig \in DOMAIN C13_Fifths =>
              /\ ret.val.attributes.key.present
              /\ ret.val.attributes.key.fifths = C13_Fifths[call.key_sig]

\* The part of C13 that holds: without a key name rendering completes and
\* the attributes have no key.
C13_NoKeyWithoutName ==
    (Done("generate_musicxml") /\ call.key_sig = NoKeySig) =>
        (ret.exc = "none" /\ ~ret.val.attributes.key.present)

\* The failing case of C13 is reached: a key name is passed and the call
\* ends in the ImportError of line 532.
C13_WitnessImportError ==
    /\ Done("generate_musicxml")
    /\ call.key_sig = <<"C">> /\ call.notes = <<>> /\ call.chords = <<>>
    /\ ret = Raise("ImportError")

(***************************************************************************)
(* services/musicxml.py: cleanup_notes_for_notation, the pre-clean, with   *)
(* its default thresholds in milliseconds.  A quotient that is half-way    *)
(* between two grid points is rounded as the exact number.                 *)
(***************************************************************************)
\* min_dur = 0.06
MinDurMs == 60

\* merge_gap = 0.06
MergeGapMs == 60

\* snap_sec = 0.02
SnapMs == 20

\* 0 < gap < 0.04
SwallowGapMs == 40

\* sorted(notes, key=(start_sec, pitch_midi)) as a stable insertion.
InsertByStartPitch(s, x) ==
    LET k == Cardinality({i \in 1..Len(s) :
                 \/ s[i].start_sec < x.start_sec
                 \/ s[i].start_sec = x.start_sec /\ s[i].pitch_midi <= x.pitch_midi})
    IN  SubSeq(s, 1, k) \o <<x>> \o SubSeq(s, k + 1, Len(s))

RECURSIVE sorted_by_start_pitch(_)
sorted_by_start_pitch(notes) ==
    IF notes = <<>> THEN <<>>
    ELSE InsertByStartPitch(
             sorted_by_start_pitch(SubSeq(notes, 1, Len(notes) - 1)),
             notes[Len(notes)])

\* The merge loop: a note is merged into the last note kept when it has the
\* same pitch and starts no later than merge_gap after that note's end.
RECURSIVE MergeLoop(_, _, _)
MergeLoop(filtered, i, merged) ==
    IF i > Len(filtered) THEN merged
    ELSE LET n == filtered[i]
             prev == merged[Len(merged)]
             prev_end == prev.start_sec + prev.duration_sec
             new_end == Max(prev_end, n.start_sec + n.duration_sec)
         IN  IF /\ merged # <<>>
                /\ n.pitch_midi = prev.pitch_midi
                /\ n.start_sec <= prev_end + MergeGapMs
             THEN MergeLoop(filtered, i + 1,
                      [merged EXCEPT ![Len(merged)] =
                          [pitch_midi |-> prev.pitch_midi,
                           start_sec |-> prev.start_sec,
                           duration_sec |-> new_end - prev.start_sec]])
             ELSE MergeLoop(filtered, i + 1, Append(merged, n))

\* Start and duration snapped to the grid of snap_sec, the duration at
\* least one grid unit.
SnapNote(n) ==
    [pitch_midi |-> n.pitch_midi,
     start_sec |-> RoundHalfEven(n.start_sec, SnapMs) * SnapMs,
     duration_sec |-> Max(SnapMs, RoundHalfEven(n.duration_sec, SnapMs) * SnapMs)]

\* A gap of less than 0.04 s to the next note is added to the duration.
SwallowGap(result, i) ==
    LET prev_end == result[i].start_sec + result[i].duration_sec
        gap == IF i < Len(result) THEN result[i + 1].start_sec - prev_end ELSE 0
    IN  IF 0 < gap /\ gap < SwallowGapMs
        THEN [result[i] EXCEPT !.duration_sec = result[i].duration_sec + gap]
        ELSE result[i]

cleanup_notes_for_notation(notes) ==
    LET sorted_notes == sorted_by_start_pitch(notes)
        filtered == SelectSeq(sorted_notes, LAMBDA n : n.duration_sec >= MinDurMs)
        merged == MergeLoop(filtered, 1, <<>>)
        result == [i \in 1..Len(merged) |-> SnapNote(merged[i])]
    IN  [i \in 1..Len(result) |-> SwallowGap(result, i)]

(***************************************************************************)
(* services/practice_pack.py: build_practice_pack.  The data directory is  *)
(* `store`: the directories made, the files written (a path is the pair of *)
(* the artifact id and the file name; the content is the value dumped)     *)
(* and the clock read by datetime.now.                                     *)
(***************************************************************************)
ALL_KEYS == SEMITONE_TO_NAME

\* Python's None for target_keys (a key name is never this one-token text).
NoTargetKeys == << <<"None">> >>

InList(x, list) == \E i \in 1..Len(list) : list[i] = x

\* Lines 35-40: the source key is the root of the first chord, "C" when
\* there is no chord or the first chord has no root.
source_key_of(chords) ==
    IF chords = <<>> THEN <<"C">>
    ELSE LET root == parse_chord_root(chords[1].symbol)
         IN  IF root # NoRoot THEN root ELSE <<"C">>

\* Mutant: the original key is never added.
keys_to_generate_as_given(target_keys, include_original, source_key) ==
    IF target_keys = NoTargetKeys THEN ALL_KEYS ELSE target_keys

\* Lines 42-50.
keys_to_generate(target_keys, include_original, source_key) ==
    LET keys == IF target_keys = NoTargetKeys THEN ALL_KEYS ELSE target_keys
    IN  IF include_original /\ ~InList(source_key, keys)
        THEN <<source_key>> \o keys
        ELSE keys

\* key.replace("#", "sharp").replace("b", "flat")
RECURSIVE safe_key(_)
safe_key(key) ==
    IF key = <<>> THEN <<>>
    ELSE (IF key[1] = "#" THEN <<"s", "h", "a", "r", "p">>
          ELSE IF key[1] = "b" THEN <<"f", "l", "a", "t">>
          ELSE <<key[1]>>) \o safe_key(Tail(key))

\* Mutant: the notes keep their pitch.
transposed_notes_same_pitch(notes, interval, offset_sec) ==
    [i \in 1..Len(notes) |->
        [pitch_midi |-> notes[i].pitch_midi,
         start_sec |-> notes[i].start_sec - offset_sec,
         duration_sec |-> notes[i].duration_sec]]

\* Lines 62-69.
transposed_notes(notes, interval, offset_sec) ==
    [i \in 1..Len(notes) |->
        [pitch_midi |-> notes[i].pitch_midi + interval,
         start_sec |-> notes[i].start_sec - offset_sec,
         duration_sec |-> notes[i].duration_sec]]

\* Lines 72-79.
transposed_chords(chords, interval, offset_sec) ==
    [i \in 1..Len(chords) |->
        [symbol |-> transpose_chord_symbol(chords[i].symbol, interval).val,
         start_sec |-> chords[i].start_sec - offset_sec,
         end_sec |-> IF chords[i].end_sec # NoEnd
                     THEN chords[i].end_sec - offset_sec ELSE NoEnd]]

\* Lines 81-92: the KeyEntry of one key.
key_entry(key, interval, notes, chords, offset_sec) ==
    [key |-> key,
     interval_semitones |-> interval,
     notes |-> transposed_notes(notes, interval, offset_sec),
     chords |-> transposed_chords(chords, interval, offset_sec),
     file_name |-> Append(safe_key(key), ".json"),
     musicxml_file_name |-> Append(safe_key(key), ".musicxml")]

\* open(path, "w") and a write of the content.
write_file(files, path, content) ==
    [p \in DOMAIN files \cup {path} |-> IF p = path THEN content ELSE files[p]]

\* Lines 109-119.
manifest_of(artifact_id, job_id, selection_id, source_key, key_entries) ==
    [artifact_id |-> artifact_id, job_id |-> job_id,
     selection_id |-> selection_id, source_key |-> source_key,
     keys |-> key_entries]

\* Lines 121-130: the archive holds the files of every entry, then the
\* manifest.
RECURSIVE zip_members(_, _, _)
zip_members(files, artifact_id, key_entries) ==
    IF key_entries = <<>>
    THEN << [arcname |-> <<"manifest.json">>,
             content |-> files[<<artifact_id, <<"manifest.json">> >>]] >>
    ELSE << [arcname |-> key_entries[1].file_name,
             content |-> files[<<artifact_id, key_entries[1].file_name>>]],
            [arcname |-> key_entries[1].musicxml_file_name,
             content |-> files[<<artifact_id, key_entries[1].musicxml_file_name>>]] >>
         \o zip_members(files, artifact_id, Tail(key_entries))

\* Lines 132-141.
artifact_of(artifact_id, job_id, selection_id, source_key, key_entries, now) ==
    [artifact_id |-> artifact_id, job_id |-> job_id,
     selection_id |-> selection_id, source_key |-> source_key,
     keys_included |-> [i \in 1..Len(key_entries) |-> key_entries[i].key],
     dir_path |-> <<job_id, artifact_id>>,
     zip_path |-> <<job_id, artifact_id, "practice_pack.zip">>,
     created_at |-> now]

(***************************************************************************)
(* Specification SpecPack: build_practice_pack called twice in a row with  *)
(* the same arguments, one key of the loop per step.  uuid4 is a choice    *)
(* among the Uuids not used before and datetime.now a clock that does not  *)
(* go back.                                                                *)
(***************************************************************************)
MaxTargetKeys == 2

Uuids == {"u1", "u2"}

\* No call has been made before the first one.
NoFirst == [none |-> TRUE]

\* Two notes of one pitch that touch, the highest pitch, and a note of 40 ms.
PackNoteLists ==
    { <<>>,
      << [pitch_midi |-> 60, start_sec |-> 0, duration_sec |-> 500],
         [pitch_midi |-> 60, start_sec |-> 500, duration_sec |-> 500] >>,
      << [pitch_midi |-> 127, start_sec |-> 1000, duration_sec |-> 500] >>,
      << [pitch_midi |-> 64, start_sec |-> 0, duration_sec |-> 40] >> }

Bb7 == <<"B", "b", "7">>

\* No chord, a first chord with a root, and a first chord without one.
PackChordLists ==
    { <<>>,
      << [symbol |-> Dm7, start_sec |-> 0, end_sec |-> NoEnd] >>,
      << [symbol |-> Bb7, start_sec |-> 500, end_sec |-> 1500] >>,
      << [symbol |-> NoChordSymbol, start_sec |-> 0, end_sec |-> 2000],
         [symbol |-> Dm7, start_sec |-> 2000, end_sec |-> NoEnd] >> }

\* Two names of the enharmonic table and one that is not in it.
PackKeys == { <<"D">>, <<"B", "b">>, <<"H">> }

InitPack ==
    /\ call \in [op : {"build_practice_pack"}, job_id : {"job"},
                 selection_id : {"sel"}, notes : PackNoteLists,
                 chords : PackChordLists, offset_sec : {0, 500},
                 target_keys : SeqsUpTo(PackKeys, MaxTargetKeys) \cup {NoTargetKeys},
                 include_original : BOOLEAN, bpm : {120},
                 time_signature : {<<4, 4>>}, run : {1}, first : {NoFirst}]
    /\ frame = NoFrame /\ ret = NoResult /\ pc = "call"
    /\ store = [dirs |-> {}, files |-> <<>>, clock |-> 0]

\* Lines 35-56: source key, key list, artifact id and pack directory.
PackEnter ==
    /\ pc = "call" /\ call.op = "build_practice_pack"
    /\ \E artifact_id \in Uuids \ {d[2] : d \in store.dirs} :
          LET source_key == source_key_of(call.chords)
          IN  /\ frame' = [source_key |-> source_key,
                           keys_to_generate |->
                               keys_to_generate(call.target_keys,
                                                call.include_original, source_key),
                           artifact_id |-> artifact_id,
                           key_entries |-> <<>>]
              /\ store' = [store EXCEPT
                              !.dirs = @ \cup {<<call.job_id, artifact_id>>}]
    /\ pc' = "loop"
    /\ UNCHANGED <<call, ret>>

\* Lines 58-107: one key.  semitone_interval raises for a key that is not
\* in the table; otherwise the entry is appended and its two files written.
PackKey ==
    /\ pc = "loop" /\ call.op = "build_practice_pack"
    /\ Len(frame.key_entries) < Len(frame.keys_to_generate)
    /\ LET key == frame.keys_to_generate[Len(frame.key_entries) + 1]
           interval == semitone_interval(frame.source_key, key)
       IN  IF interval.exc # "none"
           THEN /\ ret' = interval
                /\ pc' = "done"
                /\ UNCHANGED <<frame, store>>
           ELSE LET entry == key_entry(key, interval.val, call.notes,
                                       call.chords, call.offset_sec)
                    mxml_str == generate_musicxml(entry.notes, entry.chords,
                                    call.bpm, call.time_signature, 16, NoKeySig)
                    json_written == write_file(store.files,
                                        <<frame.artifact_id, entry.file_name>>,
                                        entry)
                IN  /\ frame' = [frame EXCEPT
                                    !.key_entries = Append(@, entry)]
                    /\ store' = [store EXCEPT !.files =
                                    write_file(json_written,
                                        <<frame.artifact_id,
                                          entry.musicxml_file_name>>,
                                        mxml_str.val)]
                    /\ UNCHANGED <<ret, pc>>
    /\ UNCHANGED call

\* Lines 109-141: manifest, archive and the artifact returned.
PackFinish ==
    /\ pc = "loop" /\ call.op = "build_practice_pack"
    /\ Len(frame.key_entries) = Len(frame.keys_to_generate)
    /\ \E now \in store.clock..(store.clock + 1) :
          LET manifest == manifest_of(frame.artifact_id, call.job_id,
                              call.selection_id, frame.source_key,
                              frame.key_entries)
              with_manifest == write_file(store.files,
                                   <<frame.artifact_id, <<"manifest.json">> >>,
                                   manifest)
          IN  /\ store' = [store EXCEPT
                              !.files = write_file(with_manifest,
                                   <<frame.artifact_id, <<"practice_pack.zip">> >>,
                                   zip_members(with_manifest, frame.artifact_id,
                                               frame.key_entries)),
                              !.clock = now]
              /\ ret' = Return(artifact_of(frame.artifact_id, call.job_id,
                                   call.selection_id, frame.source_key,
                                   frame.key_entries, now))
    /\ pc' = "done"
    /\ UNCHANGED <<call, frame>>

\* The files of one pack directory, by file name.
files_of(files, artifact_id) ==
    [name \in {p[2] : p \in {q \in DOMAIN files : q[1] = artifact_id}} |->
        files[<<artifact_id, name>>]]

\* The same call once more: what the first call returned and wrote is kept
\* for the comparison.
PackRerun ==
    /\ pc = "done" /\ call.op = "build_practice_pack" /\ call.run = 1
    /\ call' = [call EXCEPT !.run = 2,
                   !.first = [ret |-> ret,
                              files |-> files_of(store.files, frame.artifact_id)]]
    /\ frame' = NoFrame /\ ret' = NoResult /\ pc' = "call"
    /\ UNCHANGED store

NextPack == PackEnter \/ PackKey \/ PackFinish \/ PackRerun

SpecPack == InitPack /\ [][NextPack]_vars

(***************************************************************************)
(* Claims about the practice pack (checked under SpecPack).                *)
(***************************************************************************)
\* The root a symbol starts with, NoRoot when it starts with none.
RootOf(symbol) == SubSeq(symbol, 1, C1_RootLen(symbol))

\* The keys a call generates: the target keys, or the twelve canonical names
\* when none are given, after the source key when it is wanted and missing.
GeneratedKeys(source) ==
    LET keys == IF call.target_keys = NoTargetKeys THEN SEMITONE_TO_NAME
                ELSE call.target_keys
    IN  IF call.include_original /\ \A i \in 1..Len(keys) : keys[i] # source
        THEN <<source>> \o keys ELSE keys

\* Entry e is the input transposed to key K from `source`, every time moved
\* back by `shift`: pitches raised by the interval, roots transposed, the
\* text after a root and the durations unchanged.
IsTransposition(e, K, source, shift) ==
    LET interval == (PITCH_CLASS[K] - PITCH_CLASS[source]) % 12
    IN  /\ e.key = K
        /\ e.interval_semitones = interval
        /\ Len(e.notes) = Len(call.notes)
        /\ \A i \in 1..Len(call.notes) :
              /\ e.notes[i].pitch_midi = call.notes[i].pitch_midi + interval
              /\ e.notes[i].start_sec = call.notes[i].start_sec - shift
              /\ e.notes[i].duration_sec = call.notes[i].duration_sec
        /\ Len(e.chords) = Len(call.chords)
        /\ \A i \in 1..Len(call.chords) :
              LET c == call.chords[i]
              IN  /\ e.chords[i].symbol =
                         transpose_chord_symbol(c.symbol, interval).val
                  /\ SuffixOf(e.chords[i].symbol) = SuffixOf(c.symbol)
                  /\ RootOf(c.symbol) # NoRoot =>
                         PITCH_CLASS[RootOf(e.chords[i].symbol)] =
                             (PITCH_CLASS[RootOf(c.symbol)] + interval) % 12
                  /\ e.chords[i].start_sec = c.start_sec - shift
                  /\ e.chords[i].end_sec =
                         IF c.end_sec = NoEnd THEN NoEnd ELSE c.end_sec - shift

\* C14 as stated: the source key is the parsed root of the first chord, or
\* "C" without chords; every generated key has an entry with the interval
\* from the source, the input notes with only the pitch raised by it and the
\* input chords with only the root transposed; with include_original the
\* source key is among the generated keys.
C14_PackEntries ==
    (Done("build_practice_pack") /\ ret.exc = "none") =>
        LET source == IF call.chords = <<>> THEN <<"C">>
                      ELSE RootOf(call.chords[1].symbol)
        IN  /\ ret.val.source_key = source
            /\ Len(frame.key_entries) = Len(ret.val.keys_included)
            /\ \A i \in 1..Len(frame.key_entries) :
                  IsTransposition(frame.key_entries[i],
                                  ret.val.keys_included[i], source, 0)
            /\ call.include_original => InList(source, ret.val.keys_included)

\* C14 as amended: the source key is also "C" when the first chord has no
\* root; the call returns exactly when every generated key is in the
\* enharmonic table, and then every generated key has, in order, an entry
\* that is the input transposed by the interval from the source with every
\* start and end moved back by offset_sec.
C14_PackEntriesShifted ==
    Done("build_practice_pack") =>
        LET source == IF call.chords = <<>> \/ RootOf(call.chords[1].symbol) = NoRoot
                      THEN <<"C">> ELSE RootOf(call.chords[1].symbol)
            keys == GeneratedKeys(source)
        IN  /\ ret.exc = "none" <=> \A i \in 1..Len(keys) : keys[i] \in KeyNames
            /\ ret.exc = "none" =>
                  /\ ret.val.source_key = source
                  /\ ret.val.keys_included = keys
                  /\ Len(frame.key_entries) = Len(keys)
                  /\ \A i \in 1..Len(keys) :
                        IsTransposition(frame.key_entries[i], keys[i], source,
                                        call.offset_sec)
                  /\ call.include_original => InList(source, keys)

\* Witness of C14: the first chord is the "N" chord, the offset is 500 ms
\* and the pack of B flat gets the keys C and Bb; in Bb the note is 10
\* semitones up and half a second earlier and Dm7 has become Cm7.
C14_Witness ==
    /\ Done("build_practice_pack") /\ ret.exc = "none"
    /\ call.offset_sec = 500 /\ call.include_original
    /\ call.target_keys = << <<"B", "b">> >>
    /\ Len(call.chords) = 2 /\ call.chords[1].symbol = NoChordSymbol
    /\ call.notes = << [pitch_midi |-> 127, start_sec |-> 1000,
                        duration_sec |-> 500] >>
    /\ ret.val.source_key = <<"C">>
    /\ ret.val.keys_included = << <<"C">>, <<"B", "b">> >>
    /\ frame.key_entries[2].interval_semitones = 10
    /\ frame.key_entries[2].notes =
           << [pitch_midi |-> 137, start_sec |-> 500, duration_sec |-> 500] >>
    /\ frame.key_entries[2].chords[2] =
           [symbol |-> <<"C", "m", "7">>, start_sec |-> 1500, end_sec |-> NoEnd]

\* The MusicXML file written for entry e.
RenderedFor(e) == store.files[<<frame.artifact_id, e.musicxml_file_name>>]

\* C15: for every generated key the notes that grid quantisation works on
\* are the transposed notes after the pre-clean.
C15_PreCleanBeforeQuantise ==
    (call.op = "build_practice_pack" /\ pc \in {"loop", "done"}) =>
        \A i \in 1..Len(frame.key_entries) :
            RenderedFor(frame.key_entries[i]).note_grid =
                quantise(cleanup_notes_for_notation(frame.key_entries[i].notes),
                         call.bpm, GRID_DIVISIONS_get(16))

\* What the driver does instead: the transposed notes are quantised as they
\* are.
C15_QuantisedUncleaned ==
    (call.op = "build_practice_pack" /\ pc \in {"loop", "done"}) =>
        \A i \in 1..Len(frame.key_entries) :
            RenderedFor(frame.key_entries[i]).note_grid =
                quantise(frame.key_entries[i].notes, call.bpm,
                         GRID_DIVISIONS_get(16))

\* The failing case of C15 is reached: a note of 40 ms, which the pre-clean
\* drops, is in the rendered file of key D as a note of one division.
C15_WitnessShortNoteRendered ==
    /\ Done("build_practice_pack") /\ ret.exc = "none"
    /\ call.notes = << [pitch_midi |-> 64, start_sec |-> 0, duration_sec |-> 40] >>
    /\ call.target_keys = << <<"D">> >> /\ call.chords = <<>>
    /\ call.offset_sec = 0 /\ ~call.include_original
    /\ cleanup_notes_for_notation(frame.key_entries[1].notes) = <<>>
    /\ RenderedFor(frame.key_entries[1]).note_grid =
           << [s |-> 0, d |-> 1, midi |-> 66] >>

\* C16: every note of every per-key entry has a pitch in 0..127 (the input
\* notes have).
C16_PitchInRange ==
    (call.op = "build_practice_pack" /\ pc \in {"loop", "done"}) =>
        \A i \in 1..Len(frame.key_entries) :
            \A k \in 1..Len(frame.key_entries[i].notes) :
                frame.key_entries[i].notes[k].pitch_midi \in 0..127

\* The pitches of the entries stay within 11 semitones above the range.
C16_PitchAtMostElevenAbove ==
    (call.op = "build_practice_pack" /\ pc \in {"loop", "done"}) =>
        \A i \in 1..Len(frame.key_entries) :
            \A k \in 1..Len(frame.key_entries[i].notes) :
                frame.key_entries[i].notes[k].pitch_midi \in 0..138

\* C17: when build_practice_pack fails, no pack directory and no file has
\* been written (first call, on an empty data directory).
C17_NoPartialWrites ==
    (Done("build_practice_pack") /\ call.run = 1 /\ ret.exc # "none") =>
        (store.dirs = {} /\ DOMAIN store.files = {})

\* The failing case of C17 is reached: the unknown key is second in the
\* list, the call fails, and the pack directory holds the two files of the
\* first key and neither manifest nor archive.
C17_WitnessPartialPack ==
    /\ Done("build_practice_pack") /\ call.run = 1
    /\ call.target_keys = << <<"D">>, <<"H">> >> /\ ~call.include_original
    /\ ret = Raise("ValueError")
    /\ store.dirs = {<<"job", frame.artifact_id>>}
    /\ DOMAIN store.files =
           {<<frame.artifact_id, <<"D", ".json">> >>,
            <<frame.artifact_id, <<"D", ".musicxml">> >>}

\* C18: the second of two calls with identical arguments returns the same
\* artifact and writes the same files as the first.
C18_Deterministic ==
    (Done("build_practice_pack") /\ call.run = 2) =>
        /\ ret = call.first.ret
        /\ files_of(store.files, frame.artifact_id) = call.first.files

\* What is the same in both calls: the keys, and the two files of every key.
C18_SameKeyFiles ==
    (Done("build_practice_pack") /\ call.run = 2 /\ ret.exc = "none") =>
        /\ ret.val.keys_included = call.first.ret.val.keys_included
        /\ \A i \in 1..Len(frame.key_entries) :
              LET e == frame.key_entries[i]
              IN  /\ store.files[<<frame.artifact_id, e.file_name>>] =
                         call.first.files[e.file_name]
                  /\ RenderedFor(e) = call.first.files[e.musicxml_file_name]

(***************************************************************************)
(* Claim about the percentages of compute_coverage (checked under          *)
(* SpecCoverage; a percentage is in thousandths).                          *)
(***************************************************************************)
\* p is count / total rounded to 3 decimals: no thousandth is nearer.
IsRoundedRatio(p, count, total) ==
    LET d == 1000 * count - p * total
    IN  2 * d <= total /\ 2 * d >= -total

\* C19: compute_coverage never fails; for an empty note list and any chord
\* list total, the three counts and both percentages are 0; for a non-empty
\* list each percentage is its count / total rounded to 3 decimals and lies
\* in [0, 1].
C19_PercentagesGuarded ==
    Done("compute_coverage") =>
        /\ ret.exc = "none"
        /\ ret.val.total_notes = 0 =>
              /\ ret.val.chord_tone_notes = 0 /\ ret.val.tension_notes = 0
              /\ ret.val.other_notes = 0
              /\ ret.val.chord_tone_pct = 0 /\ ret.val.tension_pct = 0
        /\ ret.val.total_notes > 0 =>
              /\ IsRoundedRatio(ret.val.chord_tone_pct, ret.val.chord_tone_notes,
                                ret.val.total_notes)
              /\ IsRoundedRatio(ret.val.tension_pct, ret.val.tension_notes,
                                ret.val.total_notes)
              /\ ret.val.chord_tone_pct \in 0..1000
              /\ ret.val.tension_pct \in 0..1000

\* Witness of C19: no note and two chords, and everything returned is 0.
C19_Witness ==
    /\ Done("compute_coverage")
    /\ Len(call.chords) = 2 /\ frame.seen = 0
    /\ ret.val.total_notes = 0
    /\ ret.val.chord_tone_pct = 0 /\ ret.val.tension_pct = 0

\* Witness of C19, a non-empty list: one chord tone of two notes is 0.5.
C19_WitnessHalf ==
    /\ Done("compute_coverage")
    /\ ret.val.total_notes = 2 /\ ret.val.chord_tone_notes = 1
    /\ ret.val.other_notes = 1
    /\ ret.val.chord_tone_pct = 500 /\ ret.val.tension_pct = 0

(***************************************************************************)
(* The job row and the handlers that edit its result aggregate             *)
(* (backend/routes/jobs.py).  Each handler reads the row through its own   *)
(* session, builds a whole new result_json from what it read and commits   *)
(* it; the read and the commit are two steps of the request, and the       *)
(* steps of different requests interleave.  Times are in milliseconds.     *)
(***************************************************************************)

\* Job.result_json of a job that has no result (the column is nullable).
NoJson == [none |-> TRUE]

\* result_json.get("settings") of an aggregate without settings.
NoSettings == [none |-> TRUE]

\* Python's None for an optional bpm (a bpm is greater than 0).
NoBpm == -1

\* Python's None for SettingsUpdateRequest.offset_sec (the offsets drawn
\* are never negative).
NoOffset == -1

\* Python's None for an optional time signature.
NoTimeSig == <<>>

\* JobSettings(): the defaults of the settings model.
JobSettings == [bpm |-> NoBpm, offset_sec |-> 0, time_signature |-> NoTimeSig]

\* The validators of JobSettings: the offsets and time signatures of the
\* model are all finite and well-formed.
JobSettingsValid(s) == s.bpm = NoBpm \/ s.bpm > 0

\* job.status != "READY" or job.result_json is None, negated.
job_ready(job) == job.status = "READY" /\ job.result_json # NoJson

\* {**existing_settings, **updates}, read through JobSettings: a field of
\* the request that is None is not among the updates.
merged_settings(result_json, req) ==
    LET existing_settings ==
            IF result_json.settings = NoSettings THEN JobSettings
            ELSE result_json.settings
    IN  [bpm            |-> IF req.bpm # NoBpm THEN req.bpm
                            ELSE existing_settings.bpm,
         offset_sec     |-> IF req.offset_sec # NoOffset THEN req.offset_sec
                            ELSE existing_settings.offset_sec,
         time_signature |-> IF req.time_signature # NoTimeSig
                            THEN req.time_signature
                            ELSE existing_settings.time_signature]

\* update_settings between its query and its commit: the new aggregate and
\* the response, or the error.
update_settings_body(result_json, req) ==
    LET validated == merged_settings(result_json, req)
    IN  IF ~JobSettingsValid(validated) THEN Raise("HTTP400")
        ELSE Return([updated  |-> [result_json EXCEPT !.settings = validated],
                     response |-> validated])

\* _validate_time_range, negated: the window is accepted.
time_range_valid(start_sec, end_sec) ==
    ~(start_sec < 0 \/ end_sec < 0) /\ ~(end_sec <= start_sec)

\* create_selection between its query and its commit, for the record it has
\* built: the record is appended to the selections it read.
create_selection_body(result_json, record) ==
    Return([updated  |-> [result_json EXCEPT
                             !.selections = Append(@, record)],
            response |-> record])

\* The first error of update_chords' loop is raised whenever some chord has
\* one: a blank symbol, or an end that is not after the start.
chord_rejected(c, offset) ==
    \/ c.symbol = <<>>
    \/ c.end_sec # NoEnd /\ c.end_sec + offset <= c.start_sec + offset

\* Display time to raw time (offset added) and back (offset subtracted).
shift_chord(c, by) ==
    [symbol    |-> c.symbol,
     start_sec |-> c.start_sec + by,
     end_sec   |-> IF c.end_sec # NoEnd THEN c.end_sec + by ELSE NoEnd]

\* update_chords between its query and its commit.
update_chords_body(result_json, incoming) ==
    LET job_settings == IF result_json.settings = NoSettings THEN JobSettings
                        ELSE result_json.settings
        offset     == job_settings.offset_sec
        raw_chords == sorted_by_start(
                          [i \in 1..Len(incoming) |->
                              shift_chord(incoming[i], offset)])
    IN  IF \E i \in 1..Len(incoming) : chord_rejected(incoming[i], offset)
        THEN Raise("HTTP400")
        ELSE Return([updated  |-> [result_json EXCEPT !.chords = raw_chords],
                     response |-> [i \in 1..Len(raw_chords) |->
                                      shift_chord(raw_chords[i], 0 - offset)]])

(***************************************************************************)
(* SpecJobs: up to MaxRequests requests for one job are in flight at once. *)
(* call.job is the row before the requests, call.reqs the requests; frame, *)
(* ret and pc hold one entry per request; store is the row.                *)
(***************************************************************************)
MaxRequests == 2

SettingsRequests ==
    { [op |-> "update_settings", bpm |-> 90, offset_sec |-> NoOffset,
       time_signature |-> NoTimeSig],
      [op |-> "update_settings", bpm |-> NoBpm, offset_sec |-> 1000,
       time_signature |-> <<3, 4>>] }

SelectionRequests ==
    { [op |-> "create_selection", name |-> "A", start_sec |-> 0,
       end_sec |-> 1000],
      [op |-> "create_selection", name |-> "B", start_sec |-> 1000,
       end_sec |-> 1000] }

ChordsRequests ==
    { [op |-> "update_chords", incoming |-> l] :
        l \in { << [symbol |-> Dm7, start_sec |-> 1000, end_sec |-> 2000] >>,
                << [symbol |-> Dm7, start_sec |-> 2000, end_sec |-> NoEnd],
                   [symbol |-> Bb7, start_sec |-> 0, end_sec |-> 1000] >>,
                << [symbol |-> <<>>, start_sec |-> 0, end_sec |-> NoEnd] >> } }

JobRequests == SettingsRequests \cup SelectionRequests \cup ChordsRequests

\* The rows a job can have: not transcribed yet, or READY with an
\* aggregate that has settings or none.
JobRows ==
    { [status |-> "CREATED", result_json |-> NoJson] } \cup
    { [status |-> "READY",
       result_json |-> [notes |-> <<>>, chords |-> <<>>, settings |-> s,
                        selections |-> <<>>]] :
        s \in { NoSettings,
                [bpm |-> 120, offset_sec |-> 500,
                 time_signature |-> <<4, 4>>] } }

InitJobs ==
    /\ \E n \in 1..MaxRequests :
         /\ call \in [job : JobRows, reqs : [1..n -> JobRequests]]
         /\ frame = [r \in 1..n |-> NoFrame]
         /\ ret = [r \in 1..n |-> NoResult]
         /\ pc = [r \in 1..n |-> "call"]
    /\ store = call.job

\* The request r raises e.
Fails(r, e) ==
    /\ ret' = [ret EXCEPT ![r] = Raise(e)]
    /\ pc' = [pc EXCEPT ![r] = "done"]
    /\ UNCHANGED <<call, frame, store>>

\* The request r has queried the row (db.query(Job)...first(), in a session
\* of its own) and has run up to its db.commit(): body is what it built
\* from the row it read.
Loads(r, body) ==
    IF ~job_ready(store) THEN Fails(r, "HTTP400")
    ELSE IF body.exc # "none" THEN Fails(r, body.exc)
    ELSE /\ frame' = [frame EXCEPT ![r] = body.val]
         /\ pc' = [pc EXCEPT ![r] = "loaded"]
         /\ UNCHANGED <<call, ret, store>>

UpdateSettingsLoad(r) ==
    /\ pc[r] = "call" /\ call.reqs[r].op = "update_settings"
    /\ Loads(r, IF job_ready(store)
                THEN update_settings_body(store.result_json, call.reqs[r])
                ELSE Raise("HTTP400"))

\* The selection id is a uuid4, which no other request draws: the number
\* of the request stands for it.  The requests arrive in the same instant.
CreateSelectionLoad(r) ==
    /\ pc[r] = "call" /\ call.reqs[r].op = "create_selection"
    /\ LET req    == call.reqs[r]
           record == [selection_id |-> r, name |-> req.name,
                      start_sec |-> req.start_sec, end_sec |-> req.end_sec,
                      created_at |-> 0]
       IN  IF ~time_range_valid(req.start_sec, req.end_sec)
           THEN Fails(r, "HTTP400")
           ELSE Loads(r, IF job_ready(store)
                         THEN create_selection_body(store.result_json, record)
                         ELSE Raise("HTTP400"))

UpdateChordsLoad(r) ==
    /\ pc[r] = "call" /\ call.reqs[r].op = "update_chords"
    /\ Loads(r, IF job_ready(store)
                THEN update_chords_body(store.result_json,
                                        call.reqs[r].incoming)
                ELSE Raise("HTTP400"))

\* job.result_json = updated; flag_modified(job, "result_json");
\* db.commit(): the whole column is written, then the response returned.
Commit(r) ==
    /\ pc[r] = "loaded"
    /\ store' = [store EXCEPT !.result_json = frame[r].updated]
    /\ ret' = [ret EXCEPT ![r] = Return(frame[r].response)]
    /\ pc' = [pc EXCEPT ![r] = "done"]
    /\ UNCHANGED <<call, frame>>

NextJobs ==
    \/ \E r \in DOMAIN pc : UpdateSettingsLoad(r)
    \/ \E r \in DOMAIN pc : CreateSelectionLoad(r)
    \/ \E r \in DOMAIN pc : UpdateChordsLoad(r)
    \/ \E r \in DOMAIN pc : Commit(r)

SpecJobs == InitJobs /\ [][NextJobs]_vars

(***************************************************************************)
(* Claim C20                                                               *)
(***************************************************************************)

\* Every request has returned, and returned success.
AllSucceeded ==
    \A r \in DOMAIN pc : pc[r] = "done" /\ ret[r].exc = "none"

\* The aggregate after request r has run alone, from its query to its
\* commit, on the aggregate result_json.  A created selection is the one
\* the request returned.
RunAlone(result_json, r) ==
    LET req  == call.reqs[r]
        body == IF req.op = "update_settings"
                THEN update_settings_body(result_json, req)
                ELSE IF req.op = "create_selection"
                THEN create_selection_body(result_json, ret[r].val)
                ELSE update_chords_body(result_json, req.incoming)
    IN  body.val.updated

\* The aggregate after the requests order[1], ..., order[k] have run one
\* after the other.
RECURSIVE RunSerial(_, _)
RunSerial(order, k) ==
    IF k = 0 THEN call.job.result_json
    ELSE RunAlone(RunSerial(order, k - 1), order[k])

\* The orders in which the requests can run one after the other.
Orders ==
    { order \in [DOMAIN pc -> DOMAIN pc] :
        \A i, j \in DOMAIN pc : i # j => order[i] # order[j] }

\* C20: when the concurrent update_settings, create_selection and
\* update_chords requests for one READY job have all returned success, the
\* stored aggregate is the one that results from running them one after the
\* other in some order, so that none of them is lost.
C20_NoInterleaving ==
    AllSucceeded =>
        \E order \in Orders : store.result_json = RunSerial(order, Len(order))

\* C20: two selections have been created with success and the stored
\* aggregate holds only one of them.
C20_WitnessLostSelection ==
    /\ AllSucceeded
    /\ DOMAIN pc = 1..2
    /\ \A r \in 1..2 : call.reqs[r].op = "create_selection"
    /\ Len(store.result_json.selections) = 1

(***************************************************************************)
(* Specification SpecBeaming: calls of _compute_beaming for the voice      *)
(* events of one measure.  The offsets increase strictly (they are the     *)
(* sorted keys of a dict); an event starts where the one before it ends,   *)
(* one division later (a gap) or one division earlier (an overlap); the    *)
(* first event starts the measure or is four divisions into it.            *)
(***************************************************************************)
MaxBeamEvents == 4

BeamStarts == {0, 4}

BeamDurations == {1, 2, 4, 8}

BeamDeltas == {-1, 0, 1}

\* The voice events of a list of (duration, distance to the next event).
RECURSIVE EventsOf(_, _)
EventsOf(shape, off) ==
    IF shape = <<>> THEN <<>>
    ELSE << <<off, shape[1][1]>> >> \o
         EventsOf(Tail(shape), off + shape[1][1] + shape[1][2])

InitBeaming ==
    /\ \E k \in 0..MaxBeamEvents :
         \E shape \in [1..k -> {x \in BeamDurations \X BeamDeltas :
                                   x[1] + x[2] >= 1}] :
             call \in [op : {"_compute_beaming"}, grid : Grids,
                       voice_events : {EventsOf(shape, o) : o \in BeamStarts}]
    /\ frame = NoFrame /\ ret = NoResult /\ pc = "call" /\ store = NoStore

ComputeBeaming ==
    /\ pc = "call" /\ call.op = "_compute_beaming"
    /\ ret' = Return(_compute_beaming(call.voice_events,
                                      GRID_DIVISIONS_get(call.grid),
                                      _get_type_map(call.grid),
                                      _VALID_DURATIONS(call.grid)))
    /\ pc' = "done"
    /\ UNCHANGED <<call, frame, store>>

NextBeaming == ComputeBeaming

SpecBeaming == InitBeaming /\ [][NextBeaming]_vars

(***************************************************************************)
(* Claims about beaming (checked under SpecBeaming).                       *)
(***************************************************************************)
\* The annotated events of the call.
BeamAnn ==
    annotate(call.voice_events, GRID_DIVISIONS_get(call.grid),
             _get_type_map(call.grid), _VALID_DURATIONS(call.grid))

\* Events k and k + 1 belong to one run: both eligible, same beat, no gap.
BeamLinked(k) ==
    /\ BeamAnn[k].type \in {"eighth", "16th", "32nd"}
    /\ BeamAnn[k + 1].type \in {"eighth", "16th", "32nd"}
    /\ BeamAnn[k].off \div GRID_DIVISIONS_get(call.grid)
         = BeamAnn[k + 1].off \div GRID_DIVISIONS_get(call.grid)
    /\ BeamAnn[k].off + BeamAnn[k].dur >= BeamAnn[k + 1].off

\* The maximal run of the eligible event i.
BeamRun(i) ==
    {j \in 1..Len(call.voice_events) :
        \A k \in (IF i <= j THEN i ELSE j)..((IF i <= j THEN j ELSE i) - 1) :
            BeamLinked(k)}

\* The beam-1 tag of event i in the result, "none" when it has none.
Beam1TagOf(i) ==
    LET off == call.voice_events[i][1]
    IN  IF off \notin DOMAIN ret.val THEN "none"
        ELSE IF ret.val[off][1][1] # 1 THEN "none"
        ELSE ret.val[off][1][2]

\* C21: the beam-1 groups are the maximal runs of consecutive events of type
\* eighth, 16th or 32nd that share the beat index and have no gap; exactly
\* the runs of two or more are tagged, the first member begin, the last end,
\* the members between continue; no other event carries a beam tag.
C21_BeamOneGroups ==
    Done("_compute_beaming") =>
        /\ \A i \in 1..Len(call.voice_events) :
              LET run == BeamRun(i)
              IN  Beam1TagOf(i) =
                      IF ~(BeamAnn[i].type \in {"eighth", "16th", "32nd"})
                         \/ Cardinality(run) < 2
                      THEN "none"
                      ELSE IF \A j \in run : i <= j THEN "begin"
                      ELSE IF \A j \in run : j <= i THEN "end"
                      ELSE "continue"
        /\ DOMAIN ret.val \subseteq
              {call.voice_events[i][1] : i \in 1..Len(call.voice_events)}

\* Witness of C21: a single 16th, a gap, then three 16ths in the second half
\* of the beat: the single is not beamed, the three are.
C21_Witness ==
    /\ Done("_compute_beaming") /\ call.grid = 16
    /\ call.voice_events = << <<0, 1>>, <<2, 2>>, <<4, 2>>, <<6, 2>> >>
    /\ DOMAIN ret.val = {2, 4, 6}
    /\ ret.val[2][1] = <<1, "begin">>
    /\ ret.val[4][1] = <<1, "continue">>
    /\ ret.val[6][1] = <<1, "end">>

\* Witness of C21, the beat boundary: two eighths across the boundary of
\* the first beat are not beamed together.
C21_WitnessBeatBoundary ==
    /\ Done("_compute_beaming") /\ call.grid = 16
    /\ call.voice_events = << <<4, 4>>, <<8, 4>> >>
    /\ ret.val = <<>>

\* The events of the call are four, each starting where the one before it
\* ends, all of the notated type tname.
FourConsecutive(tname) ==
    /\ Len(call.voice_events) = 4
    /\ \A i \in 1..4 : BeamAnn[i].type = tname
    /\ \A i \in 1..3 : BeamAnn[i].off + BeamAnn[i].dur = BeamAnn[i + 1].off

\* The beam-1 tags of the four events.
FourTags == [i \in 1..4 |-> Beam1TagOf(i)]

\* C22 as stated: four consecutive eighth-note events produce one beam-1
\* group tagged begin, continue, continue, end, for either grid.
C22_FourEighthsOneGroup ==
    (Done("_compute_beaming") /\ FourConsecutive("eighth")) =>
        FourTags = <<"begin", "continue", "continue", "end">>

\* C22, amended: a beat holds two eighths in either grid, so that four
\* consecutive eighths starting on a beat make two groups tagged begin, end,
\* begin, end; four consecutive 16ths filling one beat of the sixteenth grid
\* make one group tagged begin, continue, continue, end.
C22_FourSixteenthsOneGroup ==
    Done("_compute_beaming") =>
        /\ (FourConsecutive("eighth")
             /\ BeamAnn[1].off % GRID_DIVISIONS_get(call.grid) = 0)
               => FourTags = <<"begin", "end", "begin", "end">>
        /\ (FourConsecutive("16th") /\ call.grid = 16
             /\ BeamAnn[1].off % GRID_DIVISIONS_get(call.grid) = 0
             /\ BeamAnn[4].off + BeamAnn[4].dur
                  = BeamAnn[1].off + GRID_DIVISIONS_get(call.grid))
               => FourTags = <<"begin", "continue", "continue", "end">>

\* Witness of C22: four 16ths fill the first beat of the sixteenth grid.
C22_Witness ==
    /\ Done("_compute_beaming") /\ call.grid = 16
    /\ call.voice_events = << <<0, 2>>, <<2, 2>>, <<4, 2>>, <<6, 2>> >>
    /\ FourConsecutive("16th")
    /\ FourTags = <<"begin", "continue", "continue", "end">>

\* Witness of C22, the eighths: four eighths from the start of the measure
\* in the eighth grid.
C22_WitnessEighths ==
    /\ Done("_compute_beaming") /\ call.grid = 8
    /\ call.voice_events = << <<0, 1>>, <<1, 1>>, <<2, 1>>, <<3, 1>> >>
    /\ FourConsecutive("eighth")
    /\ FourTags = <<"begin", "end", "begin", "end">>

(***************************************************************************)
(* Specification SpecRests: calls of _emit_rests for a gap of 1 up to one  *)
(* measure of 1, 3 or 4 beats, one action per iteration of the loop.       *)
(***************************************************************************)
InitRests ==
    /\ \E grid \in Grids, beats \in BeatsPerMeasure :
         call \in [op : {"_emit_rests"}, grid : {grid},
                   dur_div : 1..DivsPerMeasure(grid, beats)]
    /\ frame = NoFrame /\ ret = NoResult /\ pc = "call" /\ store = NoStore

\* remaining = dur_div
EmitRestsEnter ==
    /\ pc = "call" /\ call.op = "_emit_rests"
    /\ frame' = [remaining |-> call.dur_div, measure |-> <<>>]
    /\ pc' = "loop"
    /\ UNCHANGED <<call, ret, store>>

\* One iteration of `while remaining > 0`.
EmitRest ==
    /\ pc = "loop" /\ call.op = "_emit_rests"
    /\ frame.remaining > 0
    /\ LET valid == _VALID_DURATIONS(call.grid)
           best  == best_rest(frame.remaining, valid)
       IN  frame' = [remaining |-> frame.remaining - best,
                     measure |-> Append(frame.measure,
                                        rest_element(best,
                                                     _get_type_map(call.grid),
                                                     valid))]
    /\ UNCHANGED <<call, ret, pc, store>>

\* The loop condition fails: the function returns.
EmitRestsReturn ==
    /\ pc = "loop" /\ call.op = "_emit_rests"
    /\ ~(frame.remaining > 0)
    /\ ret' = Return(frame.measure)
    /\ pc' = "done"
    /\ UNCHANGED <<call, frame, store>>

NextRests == EmitRestsEnter \/ EmitRest \/ EmitRestsReturn

SpecRests == InitRests /\ [][NextRests]_vars

(***************************************************************************)
(* Claim about rest filling (checked under SpecRests).                     *)
(***************************************************************************)
RECURSIVE SumDurations(_)
SumDurations(elements) ==
    IF elements = <<>> THEN 0
    ELSE elements[1].duration + SumDurations(Tail(elements))

RECURSIVE SumSeq(_)
SumSeq(s) == IF s = <<>> THEN 0 ELSE s[1] + SumSeq(Tail(s))

\* Some m catalog values sum to g.
SumOfCatalog(g, m, valid) == \E f \in [1..m -> valid] : SumSeq(f) = g

\* C23: for either grid and every gap from 1 up to one measure length,
\* _emit_rests terminates (every iteration emits a rest of at least one
\* division and what is emitted plus what remains is the gap) and the rests
\* it emits are catalog values summing to the gap, each the largest catalog
\* value not exceeding the gap that remained, and no smaller number of
\* catalog values sums to the gap.
C23_GreedyRests ==
    /\ (pc = "loop" /\ call.op = "_emit_rests") =>
          /\ frame.remaining >= 0
          /\ SumDurations(frame.measure) + frame.remaining = call.dur_div
          /\ \A i \in 1..Len(frame.measure) : frame.measure[i].duration >= 1
    /\ Done("_emit_rests") =>
          LET valid == _VALID_DURATIONS(call.grid)
              rests == ret.val
          IN  /\ SumDurations(rests) = call.dur_div
              /\ \A i \in 1..Len(rests) :
                    LET left == call.dur_div
                                  - SumDurations(SubSeq(rests, 1, i - 1))
                    IN  /\ rests[i].kind = "rest"
                        /\ rests[i].duration \in valid
                        /\ rests[i].duration <= left
                        /\ \A e \in valid : e <= left => e <= rests[i].duration
              /\ \A m \in 0..(Len(rests) - 1) :
                    ~SumOfCatalog(call.dur_div, m, valid)

\* Witness of C23: a gap of 21 divisions of the sixteenth grid is filled
\* with a half, an eighth and a 32nd rest, and no two catalog values sum to
\* 21.
C23_Witness ==
    /\ Done("_emit_rests") /\ call.grid = 16 /\ call.dur_div = 21
    /\ Len(ret.val) = 3
    /\ ret.val[1].duration = 16 /\ ret.val[1].type = "half"
    /\ ret.val[2].duration = 4 /\ ret.val[2].type = "eighth"
    /\ ret.val[3].duration = 1 /\ ret.val[3].type = "32nd"
    /\ ~SumOfCatalog(21, 2, _VALID_DURATIONS(16))

(***************************************************************************)
(* Specification SpecRender: calls of generate_musicxml at 60 bpm in 2/4   *)
(* and 3/4, where a division of the eighth grid lasts 500 ms and one of    *)
(* the sixteenth grid 125 ms.  The notes start at the barline, a 32nd or   *)
(* an eighth after it and last 4, 8, 11 or 20 divisions of the sixteenth   *)
(* grid, so that notes overlap, cross the barline and have durations       *)
(* outside the catalog, some nearest to a greater catalog value.           *)
(***************************************************************************)
MaxRenderNotes == 2

RenderNotes ==
    [pitch_midi : {60, 72}, start_sec : {0, 125, 500},
     duration_sec : {500, 1000, 1375, 2500}]

RenderChordLists ==
    { <<>>, << [symbol |-> Dm7, start_sec |-> 0, end_sec |-> NoEnd] >> }

RenderTimeSignatures == {<<2, 4>>, <<3, 4>>}

InitRender ==
    /\ \E k \in 0..MaxRenderNotes :
          call \in [op : {"generate_musicxml"}, notes : [1..k -> RenderNotes],
                    chords : RenderChordLists, bpm : {60},
                    time_signature : RenderTimeSignatures, grid : Grids,
                    key_sig : {NoKeySig}]
    /\ frame = NoFrame /\ ret = NoResult /\ pc = "call"
    /\ store = NoStore

NextRender == GenerateMusicXml

SpecRender == InitRender /\ [][NextRender]_vars

(***************************************************************************)
(* Claims about the rendered measures (checked under SpecRender).          *)
(***************************************************************************)
RenderDivsPerMeasure ==
    call.time_signature[1] * GRID_DIVISIONS_get(call.grid)

\* The segments the measure partition assigns to the measure number m, in
\* the order of notes_by_m.
SegmentsOf(m) ==
    notes_by_m_get(all_segments(ret.val.note_grid, RenderDivsPerMeasure), m - 1)

\* The segments of the measure number m that fall on the offset off.
SegmentsAt(m, off) ==
    LET at_off(g) == g.off = off
    IN  SelectSeq(SegmentsOf(m), at_off)

IsRest(e) == e.kind = "rest"

IsPitched(e) == e.kind = "note"

\* A rest or a note without the chord marker: it advances the time.
IsPrimary(e) == e.kind = "rest" \/ (e.kind = "note" /\ ~e.chord)

\* The time, in divisions from the barline, taken by the first n elements.
RECURSIVE Advance(_, _)
Advance(els, n) ==
    IF n = 0 THEN 0
    ELSE Advance(els, n - 1) + (IF IsPrimary(els[n]) THEN els[n].duration ELSE 0)

\* The offset at which the note els[j] sounds: a chord-stack note sounds
\* with the primary before it.
RECURSIVE OffsetOf(_, _)
OffsetOf(els, j) ==
    IF IsPitched(els[j]) /\ els[j].chord THEN OffsetOf(els, j - 1)
    ELSE Advance(els, j - 1)

MeasureNumbers == 1..ret.val.num_measures

\* C24: in every measure, the primary entry of an offset (the note emitted
\* without the chord marker) has the lowest pitch of the segments that fall
\* on that offset, tie continuations included, and the other segments of
\* the offset follow it as chord-stack notes.
C24_PrimaryIsLowest ==
    Done("generate_musicxml") =>
        \A m \in MeasureNumbers :
            LET els == ret.val.measures[m]
            IN  \A j \in 1..Len(els) :
                    (IsPitched(els[j]) /\ ~els[j].chord) =>
                        LET segs == SegmentsAt(m, OffsetOf(els, j))
                        IN  /\ \A k \in 1..Len(segs) : els[j].midi <= segs[k].midi
                            /\ \A k \in 1..(Len(segs) - 1) :
                                  /\ j + k <= Len(els)
                                  /\ IsPitched(els[j + k]) /\ els[j + k].chord

\* Witness of the failure of C24: both notes are tied over the barline and
\* the second measure starts with the higher one as the primary.
C24_WitnessHigherPrimary ==
    /\ Done("generate_musicxml")
    /\ ret.val.num_measures >= 2
    /\ LET els == ret.val.measures[2]
       IN  /\ Len(els) >= 2
           /\ IsPitched(els[1]) /\ ~els[1].chord /\ els[1].tie_stop
           /\ IsPitched(els[2]) /\ els[2].chord /\ els[2].tie_stop
           /\ els[1].midi = 72 /\ els[2].midi = 60

\* C25: the duration emitted for a note is the duration of its segment, and
\* a segment tied to the next measure is the last element of its measure
\* (the barline follows it, not a rest).
C25_SegmentDurations ==
    Done("generate_musicxml") =>
        \A m \in MeasureNumbers :
            LET els == ret.val.measures[m]
            IN  \A j \in 1..Len(els) :
                    IsPitched(els[j]) =>
                        /\ \E k \in 1..Len(SegmentsAt(m, OffsetOf(els, j))) :
                              LET g == SegmentsAt(m, OffsetOf(els, j))[k]
                              IN  /\ g.midi = els[j].midi
                                  /\ g.chunk = els[j].duration
                        /\ els[j].tie_start =>
                              \A i \in (j + 1)..Len(els) : ~IsRest(els[i])

\* Witness of the failure of C25: a note of five eighths in 3/4 is emitted
\* as a half note of four, and an eighth rest follows it.
C25_WitnessSnapped ==
    /\ Done("generate_musicxml")
    /\ call.grid = 8 /\ call.time_signature = <<3, 4>>
    /\ ret.val.note_grid = << [s |-> 0, d |-> 5, midi |-> 60] >>
    /\ Len(ret.val.measures[1]) >= 2
    /\ ret.val.measures[1][1].kind = "note"
    /\ ret.val.measures[1][1].duration = 4
    /\ ret.val.measures[1][2].kind = "rest"

\* The number of pitched note elements of a measure.
PitchedCount(els) == Cardinality({j \in 1..Len(els) : IsPitched(els[j])})

\* C27: no note is lost: the pitched notes of a measure are as many as the
\* segments assigned to it, and a note that stops a tie is preceded, in the
\* measure before, by a note of the same pitch that starts one.
C27_NoNoteLost ==
    Done("generate_musicxml") =>
        \A m \in MeasureNumbers :
            LET els == ret.val.measures[m]
            IN  /\ PitchedCount(els) = Len(SegmentsOf(m))
                /\ \A j \in 1..Len(els) :
                      (IsPitched(els[j]) /\ els[j].tie_stop) =>
                          /\ m > 1
                          /\ \E i \in 1..Len(ret.val.measures[m - 1]) :
                                LET p == ret.val.measures[m - 1][i]
                                IN  /\ IsPitched(p) /\ p.tie_start
                                    /\ p.midi = els[j].midi

\* Witness of the failure of C27: a quarter from the barline and an eighth
\* on the second eighth; the measure holds one pitched note.
C27_WitnessLostNote ==
    /\ Done("generate_musicxml") /\ call.grid = 8
    /\ ret.val.note_grid = << [s |-> 0, d |-> 2, midi |-> 60],
                              [s |-> 1, d |-> 1, midi |-> 72] >>
    /\ PitchedCount(ret.val.measures[1]) = 1

\* C28: every measure is exactly filled: the durations of its rests and of
\* its notes without the chord marker sum to divisionsPerMeasure, and no
\* note extends past the end of its measure.
C28_MeasureFilled ==
    Done("generate_musicxml") =>
        \A m \in MeasureNumbers :
            LET els == ret.val.measures[m]
            IN  /\ Advance(els, Len(els)) = RenderDivsPerMeasure
                /\ \A j \in 1..Len(els) :
                      IsPitched(els[j]) =>
                          /\ els[j].duration >= 1
                          /\ OffsetOf(els, j) + els[j].duration
                               <= RenderDivsPerMeasure

\* Witness of C28: in 3/4 of the eighth grid a note of five eighths on the
\* second eighth fills the first measure as an eighth rest and a half note
\* of four, and a rest fills the last eighth.
C28_Witness ==
    /\ Done("generate_musicxml")
    /\ call.grid = 8 /\ call.time_signature = <<3, 4>>
    /\ ret.val.note_grid = << [s |-> 1, d |-> 5, midi |-> 60] >>
    /\ ret.val.num_measures = 1
    /\ LET els == ret.val.measures[1]
       IN  /\ Len(els) = 3
           /\ IsRest(els[1]) /\ els[1].duration = 1
           /\ IsPitched(els[2]) /\ els[2].duration = 4
           /\ IsRest(els[3]) /\ els[3].duration = 1

\* Witness of C28, the snap past the barline: in 2/4 of the sixteenth grid
\* a note of 20 divisions on the second 32nd has 15 divisions to the
\* barline, the nearest catalog value is 16, and 15 are emitted.
C28_WitnessCutBack ==
    /\ Done("generate_musicxml")
    /\ call.grid = 16 /\ call.time_signature = <<2, 4>>
    /\ ret.val.note_grid = << [s |-> 1, d |-> 20, midi |-> 60] >>
    /\ LET els == ret.val.measures[1]
       IN  /\ Len(els) = 2
           /\ IsRest(els[1]) /\ els[1].duration = 1
           /\ IsPitched(els[2]) /\ els[2].duration = 15 /\ els[2].tie_start

\* The number of harmony elements of a measure.
HarmonyCount(els) ==
    Cardinality({j \in 1..Len(els) : els[j].kind = "harmony"})

\* C29: no measure contains more than one harmony element.
C29_OneHarmony ==
    Done("generate_musicxml") =>
        \A m \in MeasureNumbers : HarmonyCount(ret.val.measures[m]) <= 1

\* Witness of the failure of C29: a chord and no note: the only measure
\* holds the harmony twice, then its rests.
C29_WitnessTwoHarmonies ==
    /\ Done("generate_musicxml")
    /\ call.notes = <<>> /\ call.chords # <<>>
    /\ ret.val.num_measures = 1
    /\ HarmonyCount(ret.val.measures[1]) = 2

(***************************************************************************)
(* Specification SpecCleanup: calls of cleanup_notes_for_notation, one     *)
(* action per stage: sort and drop, merge, snap and swallow.  The notes    *)
(* have two pitches, start at 0, 100 or 520 ms and last 40 or 500 ms.      *)
(***************************************************************************)
MaxCleanNotes == 3

CleanNotes ==
    [pitch_midi : {60, 64}, start_sec : {0, 100, 520}, duration_sec : {40, 500}]

InitCleanup ==
    /\ \E k \in 0..MaxCleanNotes :
          call \in [op : {"cleanup_notes_for_notation"},
                    notes : [1..k -> CleanNotes]]
    /\ frame = NoFrame /\ ret = NoResult /\ pc = "call" /\ store = NoStore

\* sorted_notes and filtered
CleanupSortDrop ==
    /\ pc = "call" /\ call.op = "cleanup_notes_for_notation"
    /\ frame' = [filtered |->
                    SelectSeq(sorted_by_start_pitch(call.notes),
                              LAMBDA n : n.duration_sec >= MinDurMs),
                 merged |-> <<>>]
    /\ pc' = "filtered"
    /\ UNCHANGED <<call, ret, store>>

\* for n in filtered
CleanupMerge ==
    /\ pc = "filtered" /\ call.op = "cleanup_notes_for_notation"
    /\ frame' = [frame EXCEPT !.merged = MergeLoop(frame.filtered, 1, <<>>)]
    /\ pc' = "merged"
    /\ UNCHANGED <<call, ret, store>>

\* The snap, the swallowing of small gaps and the return.
CleanupSnapReturn ==
    /\ pc = "merged" /\ call.op = "cleanup_notes_for_notation"
    /\ LET result == [i \in 1..Len(frame.merged) |-> SnapNote(frame.merged[i])]
       IN  ret' = Return([i \in 1..Len(result) |-> SwallowGap(result, i)])
    /\ pc' = "done"
    /\ UNCHANGED <<call, frame, store>>

NextCleanup == CleanupSortDrop \/ CleanupMerge \/ CleanupSnapReturn

SpecCleanup == InitCleanup /\ [][NextCleanup]_vars

(***************************************************************************)
(* Claim about the merge step (checked under SpecCleanup).                 *)
(***************************************************************************)
NoteEnd(n) == n.start_sec + n.duration_sec

\* C26: after the merge step no two notes of the same pitch remain in which
\* the later note starts within merge_gap of the earlier note's end, also
\* when notes of other pitches lie between them; every merged note spans
\* from the start of a note of its pitch to the end of one, and every note
\* kept by the drop lies within a merged note of its pitch.
C26_NoMergeableLeft ==
    (pc = "merged" /\ call.op = "cleanup_notes_for_notation") =>
        /\ \A i, j \in 1..Len(frame.merged) :
              (i < j /\ frame.merged[i].pitch_midi = frame.merged[j].pitch_midi)
                  => frame.merged[j].start_sec
                       > NoteEnd(frame.merged[i]) + MergeGapMs
        /\ \A i \in 1..Len(frame.merged) :
              /\ \E k \in 1..Len(frame.filtered) :
                    /\ frame.filtered[k].pitch_midi = frame.merged[i].pitch_midi
                    /\ frame.filtered[k].start_sec = frame.merged[i].start_sec
              /\ \E k \in 1..Len(frame.filtered) :
                    /\ frame.filtered[k].pitch_midi = frame.merged[i].pitch_midi
                    /\ NoteEnd(frame.filtered[k]) = NoteEnd(frame.merged[i])
        /\ \A k \in 1..Len(frame.filtered) :
              \E i \in 1..Len(frame.merged) :
                  /\ frame.merged[i].pitch_midi = frame.filtered[k].pitch_midi
                  /\ frame.merged[i].start_sec <= frame.filtered[k].start_sec
                  /\ NoteEnd(frame.filtered[k]) <= NoteEnd(frame.merged[i])

\* Witness of the failure of C26: pitch 60 at 0 ms and again at 520 ms, 20 ms
\* after its end, with pitch 64 at 100 ms between them in sorted order: the
\* three notes are left as they are.
C26_WitnessInterleaved ==
    /\ pc = "merged" /\ call.op = "cleanup_notes_for_notation"
    /\ frame.filtered =
          << [pitch_midi |-> 60, start_sec |-> 0, duration_sec |-> 500],
             [pitch_midi |-> 64, start_sec |-> 100, duration_sec |-> 500],
             [pitch_midi |-> 60, start_sec |-> 520, duration_sec |-> 500] >>
    /\ frame.merged = frame.filtered

(***************************************************************************)
(* workers/tasks.py: the worker that transcribes a job.                    *)
(*                                                                         *)
(* store is the committed row of the job (NoStore: no row has the id);     *)
(* frame.job is the Job object of the worker's session, whose attribute    *)
(* assignments reach the row at the next db.commit().  Times are in        *)
(* milliseconds and tempi in tenths of a beat per minute, so round(x, 1)   *)
(* of a tempo and round(x, 4) of a time are whole numbers of the unit.     *)
(***************************************************************************)

\* Python's None for Job.error (str(exc) is the message of an exception).
NoError == "None"

\* A falsy klangio_transcription_id or key signature (None or "").
NoText == ""

\* A falsy beat_tracking (None, absent or the empty list).
NoBeats == <<>>

\* result.get("klangio_artifacts") of a result without artifacts.
NoArtifacts == [none |-> TRUE]

\* The empty dict that _compute_settings_from_beats returns.
NoBeatSettings == [none |-> TRUE]

\* sorted(diffs), as statistics.median sorts its data.
InsertInt(s, x) ==
    LET k == Cardinality({i \in 1..Len(s) : s[i] <= x})
    IN  SubSeq(s, 1, k) \o <<x>> \o SubSeq(s, k + 1, Len(s))

RECURSIVE SortInts(_)
SortInts(s) ==
    IF s = <<>> THEN <<>> ELSE InsertInt(SortInts(Tail(s)), Head(s))

\* Twice statistics.median(data): the middle value, or the mean of the two
\* middle values, of the sorted data.
median2(data) ==
    LET s == SortInts(data)
        n == Len(s)
    IN  IF n % 2 = 1 THEN 2 * s[(n + 1) \div 2]
        ELSE s[n \div 2] + s[n \div 2 + 1]

\* round(a / b) for positive a and b (a tie goes up).
RoundDiv(a, b) == (2 * a + b) \div (2 * b)

\* The first timestamp whose downbeat value is 1.0, else 0.0.
first_downbeat(beat_tracking) ==
    LET ones == {i \in 1..Len(beat_tracking) : beat_tracking[i][2] = 1}
    IN  IF ones = {} THEN 0
        ELSE beat_tracking[CHOOSE i \in ones : \A j \in ones : i <= j][1]

\* _compute_settings_from_beats: a beat is a list [timestamp, downbeat
\* value]; b[1] of a shorter list raises IndexError.
_compute_settings_from_beats(beat_tracking) ==
    IF beat_tracking = <<>> \/ Len(beat_tracking) < 4
    THEN Return(NoBeatSettings)
    ELSE IF \E i \in 1..Len(beat_tracking) : Len(beat_tracking[i]) < 2
    THEN Raise("IndexError")
    ELSE
      LET timestamps == [i \in 1..Len(beat_tracking) |-> beat_tracking[i][1]]
          downbeat_values ==
              [i \in 1..Len(beat_tracking) |-> beat_tracking[i][2]]
          all_diffs == [i \in 1..(Len(timestamps) - 1) |->
                           timestamps[i + 1] - timestamps[i]]
          diffs == SelectSeq(all_diffs, LAMBDA d : d > 100)
          max_downbeat == MaxOf({downbeat_values[i] :
                                    i \in 1..Len(downbeat_values)})
          numerator == IF max_downbeat < 2 THEN 4 ELSE max_downbeat
      IN  IF diffs = <<>> THEN Return(NoBeatSettings)
          ELSE Return([bpm |-> RoundDiv(2 * 600000, median2(diffs)),
                       offset_sec |-> first_downbeat(beat_tracking),
                       time_signature |-> <<numerator, 4>>])

\* _auto_detect_settings: the values of MusicInfo first, beat tracking for
\* the fields MusicInfo did not give, the key of the artifacts.  A field
\* that the dict does not hold is NoBpm, NoTimeSig, NoOffset or NoText; the
\* empty dict is NoSettings.
_auto_detect_settings(result) ==
    LET bpm0 == IF result.tempo_bpm # NoBpm
                   /\ 300 <= result.tempo_bpm /\ result.tempo_bpm <= 3000
                THEN result.tempo_bpm ELSE NoBpm
        ts0 == result.time_signature
        off0 == result.audio_offset_sec
        bt == IF result.beat_tracking # NoBeats
              THEN _compute_settings_from_beats(result.beat_tracking)
              ELSE Return(NoBeatSettings)
        has_bt == bt.val # NoBeatSettings
        bpm1 == IF bpm0 = NoBpm /\ has_bt THEN bt.val.bpm ELSE bpm0
        ts1 == IF ts0 = NoTimeSig /\ has_bt THEN bt.val.time_signature ELSE ts0
        off1 == IF off0 = NoOffset /\ has_bt THEN bt.val.offset_sec ELSE off0
        key == IF result.klangio_artifacts = NoArtifacts THEN NoText
               ELSE result.klangio_artifacts.key_signature
        empty == bpm1 = NoBpm /\ ts1 = NoTimeSig /\ off1 = NoOffset
                 /\ key = NoText
    IN  IF bt.exc # "none" THEN bt
        ELSE IF empty THEN Return(NoSettings)
        ELSE Return([bpm |-> bpm1,
                     time_signature |-> IF ts1 = NoTimeSig THEN <<4, 4>>
                                        ELSE ts1,
                     offset_sec |-> IF off1 = NoOffset THEN 0 ELSE off1,
                     key_signature |-> key])

\* merged: the detected settings under the user's fields that are not
\* None (existing_settings holds the same four fields, or is NoSettings).
merged_detected(detected, existing_settings) ==
    IF existing_settings = NoSettings THEN detected
    ELSE [bpm |-> IF existing_settings.bpm # NoBpm
                  THEN existing_settings.bpm ELSE detected.bpm,
          time_signature |-> IF existing_settings.time_signature # NoTimeSig
                             THEN existing_settings.time_signature
                             ELSE detected.time_signature,
          offset_sec |-> IF existing_settings.offset_sec # NoOffset
                         THEN existing_settings.offset_sec
                         ELSE detected.offset_sec,
          key_signature |-> IF existing_settings.key_signature # NoText
                            THEN existing_settings.key_signature
                            ELSE detected.key_signature]

(***************************************************************************)
(* Specification SpecWorker: one call of process_job, for a job that       *)
(* create_job has committed as CREATED or for an id that has no row.  The  *)
(* collaborators answer as they can: transcribe returns a result or        *)
(* raises, os.makedirs raises or not, each artifact fetch succeeds or      *)
(* fails, and the beat tracking of the provider is absent, well-formed,    *)
(* too short, too dense or malformed.  Every commit succeeds.              *)
(***************************************************************************)
BeatTrackings ==
    { NoBeats,
      << <<140, 1>>, <<760, 2>>, <<1350, 3>>, <<1950, 4>> >>,
      << <<140, 1>>, <<760, 2>>, <<1350, 3>> >>,
      << <<0, 1>>, <<50, 1>>, <<100, 1>>, <<150, 1>> >>,
      << <<0>>, <<500>>, <<1000>>, <<1500>> >> }

\* What transcribe returns: the fields of the adapter's dict that
\* process_job and _auto_detect_settings read.
TranscribeResults ==
    [tempo_bpm : {200, 1200},
     time_signature : {<<3, 4>>, <<4, 4>>},
     audio_offset_sec : {0, 500},
     beat_tracking : BeatTrackings,
     klangio_transcription_id : {NoText, "k1"},
     klangio_artifacts : {NoArtifacts},
     settings : {NoSettings}]

InitWorker ==
    /\ call = [op |-> "process_job", job_id |-> "j1"]
    /\ store \in {NoStore,
                  [status |-> "CREATED", result_json |-> NoJson,
                   error |-> NoError]}
    /\ frame = NoFrame /\ ret = NoResult /\ pc = "call"

\* The query, and for a job that exists the first commit.
ProcessJobStart ==
    /\ pc = "call" /\ call.op = "process_job"
    /\ IF store = NoStore
       THEN /\ ret' = Return("None") /\ pc' = "done"
            /\ UNCHANGED <<frame, store>>
       ELSE /\ frame' = [job |-> [store EXCEPT !.status = "TRANSCRIBING"],
                         result |-> NoJson, exc |-> "none"]
            /\ store' = [store EXCEPT !.status = "TRANSCRIBING"]
            /\ pc' = "transcribe"
            /\ UNCHANGED ret
    /\ UNCHANGED call

\* result = transcribe(job.audio_path, job.instrument)
Transcribe ==
    /\ pc = "transcribe"
    /\ \/ /\ frame' = [frame EXCEPT !.exc = "RuntimeError"]
          /\ pc' = "except"
       \/ /\ \E r \in TranscribeResults : frame' = [frame EXCEPT !.result = r]
          /\ pc' = "artifacts"
    /\ UNCHANGED <<call, ret, store>>

\* The artifacts of a result that names its transcription: os.makedirs is
\* outside the inner try blocks, the two fetches are inside them.
FetchArtifacts ==
    /\ pc = "artifacts"
    /\ IF frame.result.klangio_transcription_id = NoText
       THEN /\ pc' = "assign" /\ UNCHANGED frame
       ELSE \/ /\ frame' = [frame EXCEPT !.exc = "OSError"]
               /\ pc' = "except"
            \/ /\ \E has_xml, has_pdf \in BOOLEAN, key \in {NoText, "F"} :
                    /\ (~has_xml => key = NoText)
                    /\ frame' = [frame EXCEPT !.result.klangio_artifacts =
                         [klangio_job_id |->
                              frame.result.klangio_transcription_id,
                          has_xml |-> has_xml, has_pdf |-> has_pdf,
                          key_signature |-> key]]
               /\ pc' = "assign"
    /\ UNCHANGED <<call, ret, store>>

\* job.result_json = result, job.status = "READY", the settings and the
\* second commit.
AssignResult ==
    /\ pc = "assign"
    /\ LET result == frame.result
           job == [frame.job EXCEPT !.result_json = result, !.status = "READY"]
           existing_settings == result.settings
           user_set_bpm == existing_settings # NoSettings
                           /\ existing_settings.bpm # NoBpm
           detected == IF user_set_bpm THEN Return(NoSettings)
                       ELSE _auto_detect_settings(result)
       IN  IF detected.exc # "none"
           THEN /\ frame' = [frame EXCEPT !.job = job, !.exc = detected.exc]
                /\ pc' = "except"
                /\ UNCHANGED <<ret, store>>
           ELSE LET job2 ==
                      IF detected.val = NoSettings THEN job
                      ELSE [job EXCEPT !.result_json =
                              [result EXCEPT !.settings =
                                 merged_detected(detected.val,
                                                 existing_settings)]]
                IN  /\ frame' = [frame EXCEPT !.job = job2]
                    /\ store' = job2
                    /\ ret' = Return("None")
                    /\ pc' = "done"
    /\ UNCHANGED call

\* except Exception as exc
HandleException ==
    /\ pc = "except"
    /\ LET job == [frame.job EXCEPT !.status = "FAILED", !.error = frame.exc]
       IN  /\ frame' = [frame EXCEPT !.job = job]
           /\ store' = job
    /\ ret' = Return("None")
    /\ pc' = "done"
    /\ UNCHANGED call

NextWorker ==
    \/ ProcessJobStart
    \/ Transcribe
    \/ FetchArtifacts
    \/ AssignResult
    \/ HandleException

SpecWorker == InitWorker /\ [][NextWorker]_vars

(***************************************************************************)
(* Claim about process_job (checked under SpecWorker).                     *)
(***************************************************************************)
StatusMoves ==
    {<<"CREATED", "TRANSCRIBING">>, <<"TRANSCRIBING", "READY">>,
     <<"TRANSCRIBING", "FAILED">>}

\* The committed status moves only along the three arrows.
StatusPath ==
    [][(store # NoStore /\ store'.status # store.status)
          => <<store.status, store'.status>> \in StatusMoves]_vars

\* A committed READY job has a result.
ReadyHasResult ==
    (store # NoStore /\ store.status = "READY") => store.result_json # NoJson

\* A committed FAILED job has an error.
FailedHasError ==
    (store # NoStore /\ store.status = "FAILED") => store.error # NoError

\* A committed FAILED job has no result.
FailedHasNoResult ==
    (store # NoStore /\ store.status = "FAILED") => store.result_json = NoJson

\* C30: process_job moves the committed status only along CREATED ->
\* TRANSCRIBING -> READY or TRANSCRIBING -> FAILED; in every committed state
\* READY implies a result_json, and FAILED implies an error and a null
\* result_json, whichever step raised.
C30_StatusMachine ==
    /\ StatusPath
    /\ [](ReadyHasResult /\ FailedHasError /\ FailedHasNoResult)

\* Witness of the failure of C30: _compute_settings_from_beats raised on a
\* malformed beat list after job.result_json was assigned, and the handler
\* committed FAILED together with the result.
C30_WitnessFailedWithResult ==
    /\ Done("process_job") /\ store # NoStore
    /\ store.status = "FAILED" /\ store.error = "IndexError"
    /\ store.result_json # NoJson
    /\ store.result_json.beat_tracking =
          << <<0>>, <<500>>, <<1000>>, <<1500>> >>

====
